---- MODULE Spec2Model ----
(***************************************************************************)
(* Round-based plan orchestration: Planner, Blind Judge, Stability         *)
(* Tracker, Decision Engine and the Orchestrator that drives them; and the *)
(* WebSocket client of the AI provider service.                            *)
(*                                                                         *)
(* Sources: planner + orchestrator (src/unnamed/part_005), decision engine *)
(* (src/unnamed/part_006), stability tracker and AI provider service       *)
(* (src/unnamed/part_007), types + blind judge (src/src/types/index.ts).   *)
(*                                                                         *)
(* Conventions of the model                                                *)
(*  - A JavaScript value is a record tagged with its typeof-like kind `t`. *)
(*  - A string of a plan (goal, constraint, task description) is a tuple   *)
(*    of one-character strings, so that toLowerCase, split, includes and   *)
(*    the bigram similarity are computed on characters.  The strings of an *)
(*    evaluation are only counted and compared whole; they are atoms.      *)
(*  - A model response is a sequence of tokens: an opening brace, a        *)
(*    closing brace, a run of prose, or one `"key": value` member.  Braces *)
(*    nested inside a member's value stay inside that token: they lie      *)
(*    between the first `{` and the last `}` and do not move either.       *)
(*  - Numbers in [0,1] with two decimals are integers in hundredths.       *)
(***************************************************************************)
EXTENDS Integers, Sequences, FiniteSets, TLC

(***************************************************************************)
(* Bounds                                                                  *)
(***************************************************************************)
\* config.maxRounds ranges over 1..MaxMaxRounds.
MaxMaxRounds == 3

(***************************************************************************)
(* JavaScript values                                                       *)
(***************************************************************************)
Undefined == [t |-> "undefined"]

Null == [t |-> "null"]

Str(s) == [t |-> "string", v |-> s]

Num(n) == [t |-> "number", v |-> n]

Arr(a) == [t |-> "array", v |-> a]

\* o is a function from key names to values
Obj(o) == [t |-> "object", v |-> o]

\* property read on a parsed object: an absent key reads as undefined
Get(o, k) == IF k \in DOMAIN o THEN o[k] ELSE Undefined

Range(s) == {s[i] : i \in DOMAIN s}

(***************************************************************************)
(* Response text                                                           *)
(***************************************************************************)
LB == [c |-> "{"]

RB == [c |-> "}"]

Prose == [c |-> "text"]

Member(k, val) == [c |-> "member", key |-> k, val |-> val]

\* String.prototype.match(/\{[\s\S]*\}/): greedy, from the first `{` to the
\* last `}` of the text; null when no `}` follows the first `{`.
MatchFrom(response) ==
    LET ls == {i \in DOMAIN response : response[i] = LB}
    IN  IF ls = {} THEN 0 ELSE CHOOSE i \in ls : \A j \in ls : i <= j

MatchTo(response) ==
    LET rs == {i \in DOMAIN response : response[i] = RB}
    IN  IF rs = {} THEN 0 ELSE CHOOSE i \in rs : \A j \in rs : i >= j

HasJsonMatch(response) ==
    MatchFrom(response) > 0 /\ MatchTo(response) > MatchFrom(response)

JsonMatch(response) ==
    SubSeq(response, MatchFrom(response), MatchTo(response))

\* JSON.parse of a text that starts with `{`: an object exactly when the text
\* is `{`, members, `}`; anything else (prose, a stray or second brace) is a
\* SyntaxError.
JsonValid(text) ==
    /\ Len(text) >= 2
    /\ text[1] = LB
    /\ text[Len(text)] = RB
    /\ \A i \in 2..(Len(text) - 1) : text[i].c = "member"

\* the parsed object: for a repeated key the last member wins
JsonParse(text) ==
    LET keys == {text[i].key : i \in 2..(Len(text) - 1)}
        last(k) == CHOOSE i \in 2..(Len(text) - 1) :
                      /\ text[i].key = k
                      /\ \A j \in 2..(Len(text) - 1) : text[j].key = k => j <= i
    IN  [k \in keys |-> text[last(k)].val]

(***************************************************************************)
(* Character strings                                                       *)
(***************************************************************************)
\* The characters of the plan strings the model draws: letters and the space.
\* String.prototype.toLowerCase on them.
LowerChar(c) ==
    CASE c = "A" -> "a"
      [] c = "B" -> "b"
      [] c = "S" -> "s"
      [] c = "X" -> "x"
      [] OTHER -> c

toLowerCase(s) == [i \in DOMAIN s |-> LowerChar(s[i])]

\* String.prototype.split(' '): the pieces between single spaces, in order
\* (an empty piece between two adjacent spaces).
RECURSIVE SplitFrom(_, _, _)
SplitFrom(s, i, word) ==
    IF i > Len(s) THEN <<word>>
    ELSE IF s[i] = " " THEN <<word>> \o SplitFrom(s, i + 1, <<>>)
    ELSE SplitFrom(s, i + 1, Append(word, s[i]))

Split(s) == SplitFrom(s, 1, <<>>)

\* String.prototype.includes
Includes(hay, needle) ==
    \/ needle = <<>>
    \/ \E i \in 1..(Len(hay) - Len(needle) + 1) :
          SubSeq(hay, i, i + Len(needle) - 1) = needle

(***************************************************************************)
(* Planner (src/unnamed/part_005, lines 1-263)                             *)
(***************************************************************************)
\* planner validateStringArray: the string items of an array, else [].
validateStringArray(value) ==
    IF value.t = "array"
    THEN SelectSeq(value.v, LAMBDA item : item.t = "string")
    ELSE <<>>

validatePriority(value) ==
    IF value \in {Str("high"), Str("medium"), Str("low")} THEN value ELSE Str("medium")

UnknownTask == Str(<<"U", "n", "k", "n", "o", "w", "n", " ", "t", "a", "s", "k">>)

\* task.description on any non-nullish task; a property of a non-object is undefined
TaskProp(task, k) == IF task.t = "object" THEN Get(task.v, k) ELSE Undefined

\* String(task.description || 'Unknown task') for the description values the
\* model draws (a string or nothing): the empty string is falsy.
TaskDescription(task) ==
    LET d == TaskProp(task, "description")
    IN  IF d.t = "string" /\ d.v # <<>> THEN d ELSE UnknownTask

\* reading task.description of null or undefined raises a TypeError
ParseTasksThrows(tasksValue) ==
    /\ tasksValue.t = "array"
    /\ \E i \in DOMAIN tasksValue.v : tasksValue.v[i].t \in {"null", "undefined"}

parseTasks(tasksValue) ==
    IF tasksValue.t # "array" THEN <<>>
    ELSE [i \in DOMAIN tasksValue.v |->
            [description  |-> TaskDescription(tasksValue.v[i]),
             priority     |-> validatePriority(TaskProp(tasksValue.v[i], "priority")),
             status       |-> Str("pending"),
             dependencies |-> validateStringArray(TaskProp(tasksValue.v[i], "dependencies"))]]

\* Outcome of a call that may throw.
Returned(value) == [threw |-> FALSE, value |-> value]

\* error is the text `${error}` gives for the thrown value
Thrown(error) == [threw |-> TRUE, error |-> error]

\* The text of `${error}` for the three errors the try block can raise.
ErrNoJson == "Error: No JSON found in response"

ErrSyntax == "SyntaxError: Unexpected token in JSON"

ErrType == "TypeError: Cannot read properties of null"

\* `${error}` of new Error(`Plan parsing failed: ${error}`)
PlanParsingFailed(cause) == "Error: Plan parsing failed: " \o cause

\* The fields id and created_at (Date.now()) are not modelled: no modelled
\* operation reads them, and their serialisation holds no run of letters
\* longer than "plan".
parsePlanResponse(response) ==
    IF ~HasJsonMatch(response) THEN Thrown(PlanParsingFailed(ErrNoJson))
    ELSE IF ~JsonValid(JsonMatch(response)) THEN Thrown(PlanParsingFailed(ErrSyntax))
    ELSE LET parsed == JsonParse(JsonMatch(response))
         IN  IF ParseTasksThrows(Get(parsed, "tasks"))
             THEN Thrown(PlanParsingFailed(ErrType))
             ELSE Returned([t           |-> "plan",
                            goals       |-> validateStringArray(Get(parsed, "goals")),
                            tasks       |-> parseTasks(Get(parsed, "tasks")),
                            constraints |-> validateStringArray(Get(parsed, "constraints"))])

\* The maximal runs of letters of JSON.stringify(plan).toLowerCase(): the
\* words of every string of the plan, and the key names and enum values the
\* serialisation always holds (those of at least five letters; a keyword has
\* more than four).  The punctuation of JSON is in no keyword, so a keyword
\* is included in the text exactly when it is included in one of the runs.
KeyWords(plan) ==
    {<<"g", "o", "a", "l", "s">>, <<"t", "a", "s", "k", "s">>,
     <<"c", "o", "n", "s", "t", "r", "a", "i", "n", "t", "s">>,
     <<"c", "r", "e", "a", "t", "e", "d">>}
    \cup (IF plan.tasks = <<>> THEN {}
          ELSE {<<"d", "e", "s", "c", "r", "i", "p", "t", "i", "o", "n">>,
                <<"p", "r", "i", "o", "r", "i", "t", "y">>,
                <<"s", "t", "a", "t", "u", "s">>,
                <<"p", "e", "n", "d", "i", "n", "g">>,
                <<"d", "e", "p", "e", "n", "d", "e", "n", "c", "i", "e", "s">>})
    \cup (IF \E i \in DOMAIN plan.tasks : plan.tasks[i].priority = Str("medium")
          THEN {<<"m", "e", "d", "i", "u", "m">>} ELSE {})

PlanStrings(plan) ==
    Range(plan.goals) \cup Range(plan.constraints)
    \cup {plan.tasks[i].description : i \in DOMAIN plan.tasks}
    \cup UNION {Range(plan.tasks[i].dependencies) : i \in DOMAIN plan.tasks}

PlanTextRuns(plan) ==
    KeyWords(plan)
    \cup UNION {Range(Split(toLowerCase(s.v))) : s \in PlanStrings(plan)}

PlanTextIncludes(plan, kw) == \E run \in PlanTextRuns(plan) : Includes(run, kw)

GoalRemoved(lockedGoal) == [kind |-> "Locked goal removed", text |-> lockedGoal]

DecisionViolated(decision) == [kind |-> "Core decision may be violated", text |-> decision]

\* lockedGoal is absent from new Set(plan.goals.map(g => g.toLowerCase()))
LacksGoal(plan, lockedGoal) ==
    toLowerCase(lockedGoal.v) \notin {toLowerCase(g.v) : g \in Range(plan.goals)}

\* matchCount < keywords.length * 0.5
DecisionUnmatched(plan, decision) ==
    LET keywords == SelectSeq(Split(toLowerCase(decision.v)), LAMBDA w : Len(w) > 4)
        matched  == SelectSeq(keywords, LAMBDA kw : PlanTextIncludes(plan, kw))
    IN  2 * Len(matched) < Len(keywords)

\* Variant that stops after the first locked goal: C7 must reject it.
validateFirstGoalOnly(plan, lockedStructure) ==
    LET removed == SelectSeq(SubSeq(lockedStructure.goals, 1, 1),
                             LAMBDA g : LacksGoal(plan, g))
        unmatched == SelectSeq(lockedStructure.core_decisions,
                               LAMBDA d : DecisionUnmatched(plan, d))
        goalViolations == [i \in DOMAIN removed |-> GoalRemoved(removed[i])]
        decisionViolations ==
            [i \in DOMAIN unmatched |-> DecisionViolated(unmatched[i])]
        violations == goalViolations \o decisionViolations
    IN  [valid |-> violations = <<>>, violations |-> violations]

validateAgainstLockedStructure(plan, lockedStructure) ==
    LET removed == SelectSeq(lockedStructure.goals, LAMBDA g : LacksGoal(plan, g))
        unmatched == SelectSeq(lockedStructure.core_decisions,
                               LAMBDA d : DecisionUnmatched(plan, d))
        goalViolations == [i \in DOMAIN removed |-> GoalRemoved(removed[i])]
        decisionViolations ==
            [i \in DOMAIN unmatched |-> DecisionViolated(unmatched[i])]
        violations == goalViolations \o decisionViolations
    IN  [valid |-> violations = <<>>, violations |-> violations]

createLockedStructure(plan, round) ==
    [t               |-> "locked",
     goals           |-> plan.goals,
     core_decisions  |-> plan.constraints,
     locked_at_round |-> round]

(***************************************************************************)
(* Blind judge (src/src/types/index.ts, lines 183-415)                     *)
(***************************************************************************)
validateComparison(value, valid) ==
    IF value.t = "string" /\ value \in Range(valid) THEN value ELSE valid[2]

\* Variant without slice(0, 10): C9 must reject it.
judgeValidateStringArrayUncut(value) ==
    IF value.t = "array"
    THEN SelectSeq(value.v, LAMBDA item : item.t = "string")
    ELSE <<>>

\* blind judge validateStringArray: the string items, at most the first 10.
judgeValidateStringArray(value) ==
    IF value.t = "array"
    THEN LET strings == SelectSeq(value.v, LAMBDA item : item.t = "string")
         IN  SubSeq(strings, 1, IF Len(strings) < 10 THEN Len(strings) ELSE 10)
    ELSE <<>>

ConservativeDefault ==
    [vs_previous    |-> Str("same"),
     vs_goal        |-> Str("same"),
     contradictions |-> <<Str("Evaluation parsing failed")>>,
     missing        |-> <<>>,
     risks          |-> <<Str("Unable to properly evaluate plan")>>]

\* Variant whose catch returns an empty evaluation: C8 must reject it.
parseBlindEvaluationEmptyDefault(response) ==
    IF ~HasJsonMatch(response) \/ ~JsonValid(JsonMatch(response))
    THEN [ConservativeDefault EXCEPT !.contradictions = <<>>]
    ELSE LET parsed == JsonParse(JsonMatch(response))
         IN  [vs_previous    |-> validateComparison(Get(parsed, "vs_previous"),
                                    <<Str("better"), Str("same"), Str("worse")>>),
              vs_goal        |-> validateComparison(Get(parsed, "vs_goal"),
                                    <<Str("closer"), Str("same"), Str("farther")>>),
              contradictions |-> judgeValidateStringArray(Get(parsed, "contradictions")),
              missing        |-> judgeValidateStringArray(Get(parsed, "missing")),
              risks          |-> judgeValidateStringArray(Get(parsed, "risks"))]

\* The try block raises when nothing matches or JSON.parse fails; the catch
\* returns the conservative default.
parseBlindEvaluation(response) ==
    IF ~HasJsonMatch(response) \/ ~JsonValid(JsonMatch(response))
    THEN ConservativeDefault
    ELSE LET parsed == JsonParse(JsonMatch(response))
         IN  [vs_previous    |-> validateComparison(Get(parsed, "vs_previous"),
                                    <<Str("better"), Str("same"), Str("worse")>>),
              vs_goal        |-> validateComparison(Get(parsed, "vs_goal"),
                                    <<Str("closer"), Str("same"), Str("farther")>>),
              contradictions |-> judgeValidateStringArray(Get(parsed, "contradictions")),
              missing        |-> judgeValidateStringArray(Get(parsed, "missing")),
              risks          |-> judgeValidateStringArray(Get(parsed, "risks"))]

\* What createBlindEvaluationPrompt interpolates into the prompt.
createBlindEvaluationPrompt(input) ==
    [kind            |-> "evaluation",
     goal            |-> input.goal,
     currentPlan     |-> input.currentPlan,
     previousPlan    |-> input.previousPlan,
     lockedStructure |-> input.lockedStructure]

(***************************************************************************)
(* Stability tracker (src/unnamed/part_007, lines 1-273)                   *)
(* A ratio is a pair <<numerator, denominator>>; overall_stability is in   *)
(* hundredths.  The arithmetic is exact: where the exact value of          *)
(* overallStability * 100 is a half, the double the code rounds may lie on *)
(* either side of it.                                                      *)
(***************************************************************************)
Ratio(n, d) == <<n, d>>

RAdd(a, b) == <<a[1] * b[2] + b[1] * a[2], a[2] * b[2]>>

RScale(k, a) == <<k * a[1], a[2]>>

Min(a, b) == IF a < b THEN a ELSE b

Max(a, b) == IF a > b THEN a ELSE b

Abs(a) == IF a < 0 THEN -a ELSE a

\* Math.round of a non-negative ratio: halves round up
RoundRatio(a) == (2 * a[1] + a[2]) \div (2 * a[2])

BigramCount(s, b) ==
    Cardinality({i \in 1..(Len(s) - 1) : <<s[i], s[i + 1]>> = b})

Bigrams(s) == {<<s[i], s[i + 1]>> : i \in 1..(Len(s) - 1)}

RECURSIVE SumOver(_, _)
SumOver(S, f) ==
    IF S = {} THEN 0
    ELSE LET x == CHOOSE y \in S : TRUE IN f[x] + SumOver(S \ {x}, f)

calculateStringSimilarity(str1, str2) ==
    LET s1 == toLowerCase(str1)
        s2 == toLowerCase(str2)
    IN  IF s1 = s2 THEN Ratio(1, 1)
        ELSE IF Len(s1) < 2 \/ Len(s2) < 2 THEN Ratio(0, 1)
        ELSE LET intersectionSize ==
                     SumOver(Bigrams(s1),
                             [b \in Bigrams(s1) |->
                                 Min(BigramCount(s1, b), BigramCount(s2, b))])
             IN  Ratio(2 * intersectionSize, Len(s1) + Len(s2) - 2)

\* calculateStringSimilarity(a, b) > 0.7
FuzzyEqual(a, b) ==
    LET r == calculateStringSimilarity(a, b) IN 10 * r[1] > 7 * r[2]

\* [...goals, ...constraints, ...tasks.map(t => t.description.toLowerCase())]
Decisions(plan) ==
    [i \in DOMAIN plan.goals |-> plan.goals[i].v]
    \o [i \in DOMAIN plan.constraints |-> plan.constraints[i].v]
    \o [i \in DOMAIN plan.tasks |-> toLowerCase(plan.tasks[i].description.v)]

\* Variant that counts a first plan as fully reused: C32 must reject it.
calculateDecisionReuseRateFull(currentPlan, previousPlan) ==
    IF currentPlan = Null \/ previousPlan = Null THEN Ratio(1, 1)
    ELSE LET previousDecisions == Range(Decisions(previousPlan))
             currentDecisions  == Decisions(currentPlan)
             reused == SelectSeq(currentDecisions,
                           LAMBDA d : \E p \in previousDecisions : FuzzyEqual(d, p))
         IN  IF Len(currentDecisions) = 0 THEN Ratio(0, 1)
             ELSE Ratio(Len(reused), Len(currentDecisions))

calculateDecisionReuseRate(currentPlan, previousPlan) ==
    IF currentPlan = Null \/ previousPlan = Null THEN Ratio(1, 2)
    ELSE LET previousDecisions == Range(Decisions(previousPlan))
             currentDecisions  == Decisions(currentPlan)
             reused == SelectSeq(currentDecisions,
                           LAMBDA d : \E p \in previousDecisions : FuzzyEqual(d, p))
         IN  IF Len(currentDecisions) = 0 THEN Ratio(0, 1)
             ELSE Ratio(Len(reused), Len(currentDecisions))

calculateSetSimilarity(setA, setB) ==
    IF setA = {} /\ setB = {} THEN Ratio(1, 1)
    ELSE IF setA = {} \/ setB = {} THEN Ratio(0, 1)
    ELSE Ratio(Cardinality(setA \cap setB), Cardinality(setA \cup setB))

calculatePlanSimilarity(currentPlan, previousPlan) ==
    IF currentPlan = Null \/ previousPlan = Null THEN Ratio(1, 2)
    ELSE LET goalSimilarity ==
                 calculateSetSimilarity(Range(currentPlan.goals), Range(previousPlan.goals))
             cur  == Len(currentPlan.tasks)
             prev == Len(previousPlan.tasks)
             taskCountSimilarity ==
                 Ratio(Max(Max(cur, prev), 1) - Abs(cur - prev), Max(Max(cur, prev), 1))
             constraintSimilarity ==
                 calculateSetSimilarity(Range(currentPlan.constraints),
                                        Range(previousPlan.constraints))
             sum == RAdd(RAdd(goalSimilarity, taskCountSimilarity), constraintSimilarity)
         IN  Ratio(sum[1], 3 * sum[2])

\* vsGoalMap and vsPreviousMap, in halves
HalvesOf(comparison) ==
    IF comparison \in {Str("closer"), Str("better")} THEN 2
    ELSE IF comparison = Str("same") THEN 1
    ELSE 0

\* vsGoalMap[vs_goal] * 0.7 + vsPreviousMap[vs_previous] * 0.3
calculateGoalConvergence(evaluation) ==
    Ratio(7 * HalvesOf(evaluation.vs_goal) + 3 * HalvesOf(evaluation.vs_previous), 20)

PlanOf(round) == IF round = Null THEN Null ELSE round.plan

\* Variant without the cap of the contradiction ratio: C14 must reject it.
calculateStabilityUncapped(currentRound, previousRound, evaluation) ==
    LET contradictionRatio == Ratio(Len(evaluation.contradictions), 5)
        decisionReuseRate  ==
            calculateDecisionReuseRate(currentRound.plan, PlanOf(previousRound))
        planSimilarity     ==
            calculatePlanSimilarity(currentRound.plan, PlanOf(previousRound))
        goalConvergence    == calculateGoalConvergence(evaluation)
        \* overallStability * 100, weights 30, 25, 25, 20
        overall100 ==
            RAdd(RAdd(RScale(30, Ratio(5 - contradictionRatio[1], 5)),
                      RScale(25, decisionReuseRate)),
                 RAdd(RScale(25, planSimilarity), RScale(20, goalConvergence)))
    IN  [contradiction_ratio |-> contradictionRatio,
         decision_reuse_rate |-> decisionReuseRate,
         plan_similarity     |-> planSimilarity,
         goal_convergence    |-> goalConvergence,
         overall_stability   |-> RoundRatio(overall100)]

\* Variant with four equal weights: C15 must reject it.
calculateStabilityEvenWeights(currentRound, previousRound, evaluation) ==
    LET contradictionRatio == Ratio(Min(Len(evaluation.contradictions), 5), 5)
        decisionReuseRate  ==
            calculateDecisionReuseRate(currentRound.plan, PlanOf(previousRound))
        planSimilarity     ==
            calculatePlanSimilarity(currentRound.plan, PlanOf(previousRound))
        goalConvergence    == calculateGoalConvergence(evaluation)
        \* overallStability * 100, weights 25, 25, 25, 25
        overall100 ==
            RAdd(RAdd(RScale(25, Ratio(5 - contradictionRatio[1], 5)),
                      RScale(25, decisionReuseRate)),
                 RAdd(RScale(25, planSimilarity), RScale(25, goalConvergence)))
    IN  [contradiction_ratio |-> contradictionRatio,
         decision_reuse_rate |-> decisionReuseRate,
         plan_similarity     |-> planSimilarity,
         goal_convergence    |-> goalConvergence,
         overall_stability   |-> RoundRatio(overall100)]

calculateStability(currentRound, previousRound, evaluation) ==
    LET contradictionRatio == Ratio(Min(Len(evaluation.contradictions), 5), 5)
        decisionReuseRate  ==
            calculateDecisionReuseRate(currentRound.plan, PlanOf(previousRound))
        planSimilarity     ==
            calculatePlanSimilarity(currentRound.plan, PlanOf(previousRound))
        goalConvergence    == calculateGoalConvergence(evaluation)
        \* overallStability * 100, weights 30, 25, 25, 20
        overall100 ==
            RAdd(RAdd(RScale(30, Ratio(5 - contradictionRatio[1], 5)),
                      RScale(25, decisionReuseRate)),
                 RAdd(RScale(25, planSimilarity), RScale(20, goalConvergence)))
    IN  [contradiction_ratio |-> contradictionRatio,
         decision_reuse_rate |-> decisionReuseRate,
         plan_similarity     |-> planSimilarity,
         goal_convergence    |-> goalConvergence,
         overall_stability   |-> RoundRatio(overall100)]

\* getStabilityStatus with the tracker's default thresholds 0.85 and 0.70
getStabilityStatus(stability) ==
    IF stability.overall_stability >= 85 THEN "stable"
    ELSE IF stability.overall_stability >= 70 THEN "converging"
    ELSE "unstable"

(***************************************************************************)
(* Decision engine (src/unnamed/part_006)                                  *)
(***************************************************************************)
RECURSIVE countFrom(_, _)
countFrom(evaluations, i) ==
    IF i >= 1 /\ evaluations[i].vs_goal = Str("farther")
    THEN 1 + countFrom(evaluations, i - 1)
    ELSE 0

\* Variant that counts every farther evaluation: C22 must reject it.
countEveryGoalDivergence(evaluations) ==
    Len(SelectSeq(evaluations, LAMBDA e : e.vs_goal = Str("farther")))

countConsecutiveGoalDivergence(evaluations) == countFrom(evaluations, Len(evaluations))

\* round.evaluation?.contradictions.length ?? 0
ContradictionCount(round) ==
    IF round.evaluation = Null THEN 0 ELSE Len(round.evaluation.contradictions)

\* The loop over recentHistory from index i with the running prevCount:
\* <<increasing, prevCount>> when it ends or breaks.
RECURSIVE trendLoop(_, _, _)
trendLoop(recentHistory, i, prevCount) ==
    IF i > Len(recentHistory) THEN <<TRUE, prevCount>>
    ELSE IF ContradictionCount(recentHistory[i]) < prevCount THEN <<FALSE, prevCount>>
    ELSE trendLoop(recentHistory, i + 1, ContradictionCount(recentHistory[i]))

\* Variant without the early return for a short history: C26 must reject it.
isContradictionTrendUpVacuous(roundHistory, currentRound) ==
    LET recentHistory == SubSeq(roundHistory, Max(Len(roundHistory) - 1, 1),
                                Len(roundHistory))
        loop == trendLoop(recentHistory, 1, 0)
    IN  loop[1] /\ ContradictionCount(currentRound) > loop[2]

isContradictionTrendUp(roundHistory, currentRound) ==
    IF Len(roundHistory) < 2 THEN FALSE
    ELSE LET recentHistory == SubSeq(roundHistory, Len(roundHistory) - 1, Len(roundHistory))
             loop == trendLoop(recentHistory, 1, 0)
         IN  loop[1] /\ ContradictionCount(currentRound) > loop[2]

\* Variant whose every decision terminates: C25 must reject it.
DecisionAlwaysTerminates(terminate, reason, confidence) ==
    [should_terminate |-> TRUE, reason |-> reason, confidence |-> confidence]

Decision(terminate, reason, confidence) ==
    [should_terminate |-> terminate, reason |-> reason, confidence |-> confidence]

\* [...roundHistory, currentRound].map(r => r.evaluation).filter(Boolean)
EvaluationsOf(rounds) ==
    LET evaluated == SelectSeq(rounds, LAMBDA r : r.evaluation # Null)
    IN  [i \in DOMAIN evaluated |-> evaluated[i].evaluation]

\* Variant that also wants the plan closer to the goal: C20 must reject it.
TaskCompleteWhenCloser(context) ==
    /\ Len(context.latestEvaluation.missing) = 0
    /\ Len(context.latestEvaluation.contradictions) = 0
    /\ context.latestEvaluation.vs_goal = Str("closer")

\* Priority 1: Task Complete
TaskComplete(context) ==
    /\ Len(context.latestEvaluation.missing) = 0
    /\ Len(context.latestEvaluation.contradictions) = 0

\* Priority 2: Stability Achieved
StabilityAchieved(context, config) ==
    context.latestStability.overall_stability >= config.stabilityThreshold

\* Variant with > for >=: C1 must reject it.
MaxRoundsReachedLate(context, config) ==
    context.currentRound.number > config.maxRounds

\* Variant without the rule: C2 must reject it.
MaxRoundsNeverReached(context, config) ==
    context.currentRound.number >= config.maxRounds /\ FALSE

\* Priority 3: Max Rounds Reached
MaxRoundsReached(context, config) ==
    context.currentRound.number >= config.maxRounds

\* Priority 4: Goal Diverging
GoalDiverging(context, config) ==
    countConsecutiveGoalDivergence(
        EvaluationsOf(Append(context.roundHistory, context.currentRound)))
    >= config.goalDivergenceLimit

\* Variant that tries rule 3 first: C3 must reject it.
makeTerminationDecisionMaxFirst(context, config) ==
    IF MaxRoundsReached(context, config)
    THEN Decision(TRUE, "max_rounds_reached", 100)
    ELSE IF TaskComplete(context)
    THEN Decision(TRUE, "task_complete", 95)
    ELSE IF StabilityAchieved(context, config)
    THEN Decision(TRUE, "stability_achieved", context.latestStability.overall_stability)
    ELSE IF GoalDiverging(context, config)
    THEN Decision(TRUE, "goal_diverging", 85)
    ELSE IF isContradictionTrendUp(context.roundHistory, context.currentRound)
    THEN Decision(TRUE, "contradiction_trend_up", 75)
    ELSE Decision(FALSE, "continue", 100 - context.latestStability.overall_stability)

\* Variant that tries the trend before the round bound: C33 must reject it.
makeTerminationDecisionTrendFirst(context, config) ==
    IF TaskComplete(context)
    THEN Decision(TRUE, "task_complete", 95)
    ELSE IF StabilityAchieved(context, config)
    THEN Decision(TRUE, "stability_achieved", context.latestStability.overall_stability)
    ELSE IF isContradictionTrendUp(context.roundHistory, context.currentRound)
    THEN Decision(TRUE, "contradiction_trend_up", 75)
    ELSE IF MaxRoundsReached(context, config)
    THEN Decision(TRUE, "max_rounds_reached", 100)
    ELSE IF GoalDiverging(context, config)
    THEN Decision(TRUE, "goal_diverging", 85)
    ELSE Decision(FALSE, "continue", 100 - context.latestStability.overall_stability)

makeTerminationDecision(context, config) ==
    IF TaskComplete(context)
    THEN Decision(TRUE, "task_complete", 95)
    ELSE IF StabilityAchieved(context, config)
    THEN Decision(TRUE, "stability_achieved", context.latestStability.overall_stability)
    ELSE IF MaxRoundsReached(context, config)
    THEN Decision(TRUE, "max_rounds_reached", 100)
    ELSE IF GoalDiverging(context, config)
    THEN Decision(TRUE, "goal_diverging", 85)
    ELSE IF isContradictionTrendUp(context.roundHistory, context.currentRound)
    THEN Decision(TRUE, "contradiction_trend_up", 75)
    ELSE Decision(FALSE, "continue", 100 - context.latestStability.overall_stability)

validateTerminationDecision(decision, context) ==
    LET lowConfidence ==
            IF decision.confidence < 70
            THEN <<"Low confidence termination - consider manual review">> ELSE <<>>
        stillMissing ==
            IF /\ Len(context.latestEvaluation.missing) > 0
               /\ decision.reason # "max_rounds_reached"
            THEN <<"items still missing">> ELSE <<>>
        risks ==
            IF Len(context.latestEvaluation.risks) > 0
            THEN <<"risks identified">> ELSE <<>>
    IN  [valid    |-> TRUE,
         warnings |-> IF decision.should_terminate
                      THEN lowConfidence \o stillMissing \o risks
                      ELSE <<>>]

(***************************************************************************)
(* Orchestrator (src/unnamed/part_005, lines 265-692)                      *)
(***************************************************************************)
VARIABLES
    config,       \* this.config: maxRounds, stabilityThreshold
    state,        \* this.state: OrchestratorState
    pc,           \* where the execute call stands
    roundResult,  \* the RoundResult executeRound resolved with, until execute reads it
    result,       \* the ExecutionResult execute resolved with
    lastCall,     \* how the latest callModel call of the run ended
    trace,        \* hook invocations and callModel calls of the run, in order
    locals,       \* the closure of the execute call: what its steps hold besides this.state
    suspended,    \* the execute calls that wait while another one runs
    snapshot,     \* what getState returned to its latest caller, or Null
    service,      \* the fields of the AIProviderService object
    network       \* the sockets, timers and chat calls around the service

vars == <<config, state, pc, roundResult, result, lastCall, trace,
          locals, suspended, snapshot, service, network>>

\* The service as its field initialisers leave it.
NewService ==
    [ws                |-> Null,
     reconnectAttempts |-> 0,
     messageQueue      |-> <<>>,
     pendingCallbacks  |-> {},
     connectionPromise |-> Null]

\* No socket, timer, request or chat call exists yet.
QuietNetwork ==
    [sockets      |-> <<>>,
     timers       |-> <<>>,
     wire         |-> <<>>,
     chats        |-> <<>>,
     requests     |-> 0,
     hung         |-> FALSE,
     disconnects  |-> 0,
     disconnected |-> FALSE]

\* The goal of the runs.
Goal == "Ship X"

(***************************************************************************)
(* Prompts: what each builder interpolates                                 *)
(***************************************************************************)
createArchitectPrompt(input) ==
    Returned([kind    |-> "architect",
              goal    |-> input.goal,
              context |-> input.context])

createRefinerPrompt(input) ==
    IF input.lockedStructure = Null \/ input.previousPlan = Null
    THEN Thrown("Error: Refiner phase requires locked structure and previous plan")
    ELSE Returned([kind            |-> "refiner",
                   clause          |-> "LOCKED STRUCTURE (DO NOT CHANGE)",
                   goal            |-> input.goal,
                   context         |-> input.context,
                   lockedStructure |-> input.lockedStructure,
                   previousPlan    |-> input.previousPlan])

(***************************************************************************)
(* Observable events                                                       *)
(***************************************************************************)
Log(type, message, data) ==
    [ev |-> "onLog", type |-> type, message |-> message, data |-> data]

Hook(name, arg) == [ev |-> name, type |-> "hook", message |-> "", data |-> arg]

Call(prompt) == [ev |-> "callModel", type |-> "call", message |-> "", data |-> prompt]

(***************************************************************************)
(* State                                                                   *)
(***************************************************************************)
createInitialState ==
    [currentRound |-> [number           |-> 0,
                       phase            |-> "ARCHITECT",
                       plan             |-> Null,
                       evaluation       |-> Null,
                       stability        |-> Null,
                       locked_structure |-> Null],
     roundHistory |-> <<>>,
     goal         |-> "",
     context      |-> "",
     isRunning    |-> FALSE,
     lastResult   |-> Null]

\* roundHistory[roundHistory.length - 1] ?? null
LastRound(roundHistory) ==
    IF roundHistory = <<>> THEN Null ELSE roundHistory[Len(roundHistory)]

\* Variant that does not carry the locked structure over: C5 must reject it.
startNewRoundUnlocked(st) ==
    LET archived == IF st.currentRound.number > 0
                    THEN Append(st.roundHistory, st.currentRound)
                    ELSE st.roundHistory
        newRoundNumber == st.currentRound.number + 1
        isFirstRound == newRoundNumber = 1
    IN  [st EXCEPT
           !.roundHistory = archived,
           !.currentRound =
               [number           |-> newRoundNumber,
                phase            |-> IF isFirstRound THEN "ARCHITECT" ELSE "REFINER",
                plan             |-> Null,
                evaluation       |-> Null,
                stability        |-> Null,
                locked_structure |-> Null]]

\* Variant that archives the latest round only: C28 must reject it.
startNewRoundKeepsLatest(st) ==
    LET archived == IF st.currentRound.number > 0
                    THEN <<st.currentRound>>
                    ELSE st.roundHistory
        newRoundNumber == st.currentRound.number + 1
        isFirstRound == newRoundNumber = 1
    IN  [st EXCEPT
           !.roundHistory = archived,
           !.currentRound =
               [number           |-> newRoundNumber,
                phase            |-> IF isFirstRound THEN "ARCHITECT" ELSE "REFINER",
                plan             |-> Null,
                evaluation       |-> Null,
                stability        |-> Null,
                locked_structure |-> IF isFirstRound THEN Null
                                     ELSE st.currentRound.locked_structure]]

startNewRound(st) ==
    LET archived == IF st.currentRound.number > 0
                    THEN Append(st.roundHistory, st.currentRound)
                    ELSE st.roundHistory
        newRoundNumber == st.currentRound.number + 1
        isFirstRound == newRoundNumber = 1
    IN  [st EXCEPT
           !.roundHistory = archived,
           !.currentRound =
               [number           |-> newRoundNumber,
                phase            |-> IF isFirstRound THEN "ARCHITECT" ELSE "REFINER",
                plan             |-> Null,
                evaluation       |-> Null,
                stability        |-> Null,
                locked_structure |-> IF isFirstRound THEN Null
                                     ELSE st.currentRound.locked_structure]]

\* Variant that always refines the plan of round 1: C16 must reject it.
PlanPromptFromFirstPlan(st) ==
    LET plannerInput ==
            [goal            |-> st.goal,
             context         |-> st.context,
             previousPlan    |-> PlanOf(IF st.roundHistory = <<>> THEN Null ELSE st.roundHistory[1]),
             lockedStructure |-> st.currentRound.locked_structure,
             phase           |-> st.currentRound.phase]
    IN  IF st.currentRound.phase = "ARCHITECT"
        THEN createArchitectPrompt(plannerInput)
        ELSE createRefinerPrompt(plannerInput)

\* generatePlan up to its await: the prompt of the phase, or what building it throws
PlanPrompt(st) ==
    LET plannerInput ==
            [goal            |-> st.goal,
             context         |-> st.context,
             previousPlan    |-> PlanOf(LastRound(st.roundHistory)),
             lockedStructure |-> st.currentRound.locked_structure,
             phase           |-> st.currentRound.phase]
    IN  IF st.currentRound.phase = "ARCHITECT"
        THEN createArchitectPrompt(plannerInput)
        ELSE createRefinerPrompt(plannerInput)

\* evaluatePlan up to its await
EvaluationPrompt(st, plan) ==
    createBlindEvaluationPrompt(
        [currentPlan     |-> plan,
         previousPlan    |-> PlanOf(LastRound(st.roundHistory)),
         goal            |-> st.goal,
         lockedStructure |-> st.currentRound.locked_structure])

\* Variant that reports the last archived round: C10 must reject it.
FailureResultArchivedRound(st, error) ==
    [success            |-> FALSE,
     output             |-> [head |-> "Orchestration failed: ", error |-> error],
     round              |-> Len(st.roundHistory),
     stability          |-> IF st.currentRound.stability = Null THEN 0
                            ELSE st.currentRound.stability.overall_stability,
     terminated         |-> TRUE,
     termination_reason |-> "max_rounds_reached"]

\* The ExecutionResult of the catch block of execute.
FailureResult(st, error) ==
    [success            |-> FALSE,
     output             |-> [head |-> "Orchestration failed: ", error |-> error],
     round              |-> st.currentRound.number,
     stability          |-> IF st.currentRound.stability = Null THEN 0
                            ELSE st.currentRound.stability.overall_stability,
     terminated         |-> TRUE,
     termination_reason |-> "max_rounds_reached"]

createFinalOutput(rr) ==
    [head      |-> "ORCHESTRATION COMPLETE",
     plan      |-> rr.plan,
     round     |-> rr.round,
     stability |-> rr.stability.overall_stability,
     reason    |-> rr.decision.reason]

\* Variant that counts every reason but the round bound as a success: C4
\* must reject it.
TerminateResultOptimistic(rr) ==
    [success            |-> rr.decision.reason # "max_rounds_reached",
     output             |-> createFinalOutput(rr),
     round              |-> rr.round,
     stability          |-> rr.stability.overall_stability,
     terminated         |-> TRUE,
     termination_reason |-> rr.decision.reason]

\* The ExecutionResult terminate builds.
TerminateResult(rr) ==
    [success            |-> rr.decision.reason = "stability_achieved"
                            \/ rr.decision.reason = "task_complete",
     output             |-> createFinalOutput(rr),
     round              |-> rr.round,
     stability          |-> rr.stability.overall_stability,
     terminated         |-> TRUE,
     termination_reason |-> rr.decision.reason]

\* Variant that never derives a locked structure: C31 must reject it.
lockStructureNever(roundNumber, cur, plan) ==
    cur.locked_structure

\* Variant that locks in every round: C6 must reject it.
lockStructureEveryRound(roundNumber, cur, plan) ==
    createLockedStructure(plan, roundNumber)

\* Step 2 of executeRound: the locked structure is derived in round 1 only.
lockStructure(roundNumber, cur, plan) ==
    IF roundNumber = 1
    THEN createLockedStructure(plan, roundNumber)
    ELSE cur.locked_structure

(***************************************************************************)
(* Model responses the runs draw from                                      *)
(***************************************************************************)
gA == Str(<<"A">>)

gB == Str(<<"B">>)

gLowerA == Str(<<"a">>)

cBudget == Str(<<"b", "u", "d", "g", "e", "t">>)

taskX == Obj([description |-> Str(<<"d", "o", " ", "X">>), priority |-> Str("high")])

taskY == Obj([description |-> Str(<<"d", "o", " ", "y">>), priority |-> Str("urgent"),
              dependencies |-> Arr(<<Str(<<"d", "o", " ", "X">>), Num(1)>>)])

\* goals A, B; one task; one constraint; wrapped in a Markdown fence
PlanTextAB ==
    <<Prose, LB, Member("goals", Arr(<<gA, gB>>)), Member("tasks", Arr(<<taskX>>)),
      Member("constraints", Arr(<<cBudget>>)), RB, Prose>>

\* the same goals in another case, a second task
PlanTextRefined ==
    <<LB, Member("goals", Arr(<<gLowerA, gB>>)), Member("tasks", Arr(<<taskX, taskY>>)),
      Member("constraints", Arr(<<cBudget>>)), RB>>

\* goal B dropped (a number stands in its place), no constraints
PlanTextDropsB ==
    <<LB, Member("goals", Arr(<<gA, Num(2)>>)), Member("tasks", Arr(<<taskX>>)), RB>>

PlanTextNoJson == <<Prose>>

\* a valid object followed by prose that holds braces
PlanTextTrailingBraces ==
    <<LB, Member("goals", Arr(<<gA>>)), RB, Prose, LB, Prose, RB>>

PlanTextNullTask == <<LB, Member("goals", Arr(<<gA>>)), Member("tasks", Arr(<<Null>>)), RB>>

PlanResponses ==
    {PlanTextAB, PlanTextRefined, PlanTextDropsB, PlanTextNoJson,
     PlanTextTrailingBraces, PlanTextNullTask}

Strings(n) == [i \in 1..n |-> Str("item")]

EvalTextComplete ==
    <<Prose, LB, Member("vs_previous", Str("same")), Member("vs_goal", Str("closer")),
      Member("contradictions", Arr(<<>>)), Member("missing", Arr(<<>>)),
      Member("risks", Arr(<<>>)), RB>>

EvalTextFarther ==
    <<LB, Member("vs_previous", Str("worse")), Member("vs_goal", Str("farther")),
      Member("contradictions", Arr(<<>>)), Member("missing", Arr(Strings(1))),
      Member("risks", Arr(Strings(1))), RB>>

\* one contradiction, one missing item, and a numeric score the prompt forbids
EvalTextBetter ==
    <<LB, Member("vs_previous", Str("better")), Member("vs_goal", Str("closer")),
      Member("contradictions", Arr(Strings(1))), Member("missing", Arr(Strings(1))),
      Member("risks", Arr(<<>>)), Member("score", Num(90)), RB, Prose>>

\* comparison values of the wrong type or outside the enum, eleven strings and
\* a number as contradictions, a string where the missing list should be
EvalTextOdd ==
    <<LB, Member("vs_previous", Num(1)), Member("vs_goal", Str("sideways")),
      Member("contradictions", Arr(Strings(11) \o <<Num(3)>>)),
      Member("missing", Str("none")), RB>>

\* worse and farther, with risks, and nothing contradictory or missing
EvalTextRisky ==
    <<LB, Member("vs_previous", Str("worse")), Member("vs_goal", Str("farther")),
      Member("risks", Arr(Strings(2))), RB>>

EvalTextNoJson == <<Prose>>

EvalTextBadJson == <<Prose, LB, Prose, RB>>

\* a valid object followed by prose that holds braces
EvalTextTrailingBraces ==
    <<LB, Member("contradictions", Arr(<<>>)), Member("missing", Arr(<<>>)), RB,
      Prose, LB, Prose, RB>>

EvalResponses ==
    {EvalTextComplete, EvalTextFarther, EvalTextBetter, EvalTextOdd, EvalTextRisky,
     EvalTextNoJson, EvalTextBadJson, EvalTextTrailingBraces}

\* `${error}` of what callModel rejects with
ModelErrors == {"Error: model call failed"}

\* config.stabilityThreshold, in hundredths
Thresholds == {60, 85}

(***************************************************************************)
(* Steps of execute.  Each action is one synchronous stretch of the code,  *)
(* from one await to the next.                                             *)
(***************************************************************************)
\* One(v): binds a value computed once to a name (\E x \in One(v) : ...).
One(v) == {v}

NoCall == [kind |-> "none", outcome |-> "none", text |-> <<>>, error |-> ""]

Resolved(kind, text) == [kind |-> kind, outcome |-> "resolved", text |-> text, error |-> ""]

Rejected(kind, error) == [kind |-> kind, outcome |-> "rejected", text |-> <<>>, error |-> error]

(* The closure of the execute call that is running: roundNumber and plan of
   executeRound, and the currentRound object generatePlan took from
   this.state before its await.  sameRound says that this object is still
   the one this.state.currentRound refers to; once it is not, currentRound
   holds the object's content. *)
NoLocals == [roundNumber |-> 0, plan |-> Null, sameRound |-> FALSE, currentRound |-> Null]

NewLocals(st) ==
    [roundNumber |-> st.currentRound.number, plan |-> Null,
     sameRound |-> TRUE, currentRound |-> Null]

\* The currentRound object generatePlan holds.
Captured(l, st) == IF l.sameRound THEN st.currentRound ELSE l.currentRound

\* this.state.currentRound is assigned a new object: the execute calls that
\* are suspended keep the object they took, with the content `round`.
Detached(frames, round) ==
    [i \in DOMAIN frames |->
        IF frames[i].locals.sameRound
        THEN [frames[i] EXCEPT !.locals.sameRound = FALSE,
                               !.locals.currentRound = round]
        ELSE frames[i]]

(* What getState returned, as its holder sees it: { ...this.state } copies
   the fields of this.state, so currentRound and roundHistory are the
   orchestrator's own objects (sameRound, sameHistory) until the orchestrator
   assigns new ones to its fields. *)
Seen(snap, st) ==
    IF snap = Null THEN Null
    ELSE [snap EXCEPT
            !.state.currentRound = IF snap.sameRound THEN st.currentRound ELSE @,
            !.state.roundHistory = IF snap.sameHistory THEN st.roundHistory ELSE @]

\* this.state = this.createInitialState()
Released(snap) ==
    IF snap = Null THEN Null
    ELSE [snap EXCEPT !.sameRound = FALSE, !.sameHistory = FALSE]

\* startNewRound: the push is seen in a shared array, then
\* this.state.currentRound is another object.
NewRoundSeen(snap, st) ==
    IF snap = Null THEN Null
    ELSE [snap EXCEPT
            !.state.roundHistory = IF snap.sameHistory THEN st.roundHistory ELSE @,
            !.sameRound = FALSE]

\* Variant that logs the error and issues the plan call again: C13 must
\* reject it.
FailedRetry(st, tr, error) ==
    /\ locals' = NewLocals(st)
    /\ state' = st
    /\ trace' = tr \o <<Log("error", "Orchestration error", error),
                         Call(PlanPrompt(st).value)>>
    /\ result' = Null
    /\ roundResult' = Null
    /\ pc' = "plan_call"

\* The catch block of execute.
Failed(st, tr, error) ==
    /\ locals' = NoLocals
    /\ state' = st
    /\ trace' = Append(tr, Log("error", "Orchestration error", error))
    /\ result' = FailureResult(st, error)
    /\ roundResult' = Null
    /\ pc' = "done"

\* Variant that logs the start of the round before it invokes onRoundStart:
\* C23 must reject it.
BeginRoundLogsFirst(st, tr, snap, frames) ==
    \E st1 \in One(startNewRound(st)) :
    \E prompt \in One(PlanPrompt(st1)) :
      /\ snapshot' = NewRoundSeen(snap, st1)
      /\ suspended' = Detached(frames, state.currentRound)
      /\ LET tr1 == tr \o <<Log("round_start", "Round started",
                                [round |-> st1.currentRound.number,
                                 phase |-> st1.currentRound.phase]),
                            Hook("onRoundStart", st1.currentRound.number)>>
         IN  IF prompt.threw
             THEN Failed(st1, tr1, prompt.error)
             ELSE /\ locals' = NewLocals(st1)
                  /\ state' = st1
                  /\ trace' = Append(tr1, Call(prompt.value))
                  /\ result' = Null
                  /\ roundResult' = Null
                  /\ pc' = "plan_call"

\* executeRound from its start to the await of the plan call.
BeginRound(st, tr, snap, frames) ==
    \E st1 \in One(startNewRound(st)) :
    \E prompt \in One(PlanPrompt(st1)) :
      /\ snapshot' = NewRoundSeen(snap, st1)
      /\ suspended' = Detached(frames, state.currentRound)
      /\ LET tr1 == tr \o <<Hook("onRoundStart", st1.currentRound.number),
                            Log("round_start", "Round started",
                                [round |-> st1.currentRound.number,
                                 phase |-> st1.currentRound.phase])>>
         IN  IF prompt.threw
             THEN Failed(st1, tr1, prompt.error)
             ELSE /\ locals' = NewLocals(st1)
                  /\ state' = st1
                  /\ trace' = Append(tr1, Call(prompt.value))
                  /\ result' = Null
                  /\ roundResult' = Null
                  /\ pc' = "plan_call"

\* Variant that leaves isRunning as createInitialState made it: C29 must
\* reject it.
StartNotRunning(tr, frames) ==
    /\ BeginRound([createInitialState EXCEPT !.goal = Goal, !.context = ""],
                  Append(tr, Log("round_start", "Starting orchestration", Goal)),
                  Released(snapshot), frames)
    /\ lastCall' = NoCall
    /\ UNCHANGED <<config, service, network, service, network>>

\* Variant that keeps the state of the run before: C27 must reject it.
StartKeepsState(tr, frames) ==
    /\ BeginRound([state EXCEPT !.goal = Goal, !.context = "", !.isRunning = TRUE],
                  Append(tr, Log("round_start", "Starting orchestration", Goal)),
                  Released(snapshot), frames)
    /\ lastCall' = NoCall
    /\ UNCHANGED <<config, service, network, service, network>>

\* execute(goal, context) up to the first await, with the events so far
\* `tr` and the execute calls that are suspended `frames`.
Start(tr, frames) ==
    /\ BeginRound([createInitialState EXCEPT !.goal = Goal, !.context = "",
                                             !.isRunning = TRUE],
                  Append(tr, Log("round_start", "Starting orchestration", Goal)),
                  Released(snapshot), frames)
    /\ lastCall' = NoCall
    /\ UNCHANGED <<config, service, network, service, network>>

\* execute is called while no call of it is running.
Execute ==
    /\ pc \in {"idle", "done"}
    /\ Start(<<>>, suspended)

\* generatePlan after the model answered: the parsed plan and the log entry
\* of the locking validation, or what parsePlanResponse throws.
GeneratedPlan(cur, response) ==
    LET parsed == parsePlanResponse(response)
    IN  IF parsed.threw THEN [threw |-> TRUE, error |-> parsed.error, logs |-> <<>>]
        ELSE IF cur.phase = "REFINER" /\ cur.locked_structure # Null
        THEN LET validation ==
                     validateAgainstLockedStructure(parsed.value, cur.locked_structure)
             IN  [threw |-> FALSE, value |-> parsed.value,
                  logs  |-> IF ~validation.valid
                            THEN <<Log("error", "Structure violations detected",
                                       validation.violations)>>
                            ELSE <<>>]
        ELSE [threw |-> FALSE, value |-> parsed.value, logs |-> <<>>]

\* The plan call resolves with one of `responses`: the rest of generatePlan,
\* then executeRound up to the await of the evaluation call.
PlanResolvedFrom(responses) ==
    /\ pc = "plan_call"
    /\ \E response \in responses :
       \E generated \in One(GeneratedPlan(Captured(locals, state), response)) :
         /\ lastCall' = Resolved("plan", response)
         /\ IF generated.threw
            THEN Failed(state, trace, generated.error)
            ELSE LET plan == generated.value
                     roundNumber == locals.roundNumber
                 IN  \E st1 \in One([state EXCEPT
                            !.currentRound.plan = plan,
                            !.currentRound.locked_structure =
                                lockStructure(roundNumber, state.currentRound, plan)]) :
                       /\ locals' = [locals EXCEPT !.plan = plan]
                       /\ state' = st1
                       /\ trace' = trace
                            \o generated.logs
                            \o <<Log("decision", "Plan generated", Len(plan.tasks))>>
                            \o (IF roundNumber = 1
                                THEN <<Log("decision", "Structure LOCKED", Null)>>
                                ELSE <<>>)
                            \o <<Call(EvaluationPrompt(st1, plan))>>
                       /\ pc' = "eval_call"
                       /\ UNCHANGED <<result, roundResult>>
    /\ snapshot' = Seen(snapshot, state')
    /\ UNCHANGED <<config, service, network, suspended>>

PlanResolved == PlanResolvedFrom(PlanResponses)

\* The plan call rejects.
PlanRejected ==
    /\ pc = "plan_call"
    /\ \E error \in ModelErrors :
         /\ Failed(state, trace, error)
         /\ lastCall' = Rejected("plan", error)
    /\ UNCHANGED <<config, service, network, suspended, snapshot>>

DecisionContext(st, evaluation, stability) ==
    [currentRound     |-> st.currentRound,
     roundHistory     |-> st.roundHistory,
     latestEvaluation |-> evaluation,
     latestStability  |-> stability]

\* Variant that allows the engine one round more: C21 must reject it.
EngineConfigExtraRound(cfg) ==
    [maxRounds           |-> cfg.maxRounds + 1,
     stabilityThreshold  |-> cfg.stabilityThreshold,
     goalDivergenceLimit |-> 2]

\* The configuration executeRound hands to the decision engine.
EngineConfig(cfg) ==
    [maxRounds           |-> cfg.maxRounds,
     stabilityThreshold  |-> cfg.stabilityThreshold,
     goalDivergenceLimit |-> 2]

RoundResultOf(st, decision) ==
    [round      |-> st.currentRound.number,
     plan       |-> st.currentRound.plan,
     evaluation |-> st.currentRound.evaluation,
     stability  |-> st.currentRound.stability,
     decision   |-> decision]

\* The evaluation call resolves with one of `responses`: the rest of
\* executeRound.
EvalResolvedFrom(responses) ==
    /\ pc = "eval_call"
    /\ \E response \in responses :
       \E evaluation \in One(parseBlindEvaluation(response)) :
       \E st1 \in One([state EXCEPT !.currentRound.evaluation = evaluation]) :
       \E stability \in One(calculateStability(st1.currentRound,
                                LastRound(st1.roundHistory), evaluation)) :
       \E st2 \in One([st1 EXCEPT !.currentRound.stability = stability]) :
       \E context \in One(DecisionContext(st2, evaluation, stability)) :
       \E decision \in One(makeTerminationDecision(context, EngineConfig(config))) :
       \E validation \in One(validateTerminationDecision(decision, context)) :
       \E rr \in One([round      |-> locals.roundNumber,
                       plan       |-> locals.plan,
                       evaluation |-> evaluation,
                       stability  |-> stability,
                       decision   |-> decision]) :
         /\ locals' = NoLocals
         /\ state' = st2
         /\ trace' = trace
              \o <<Log("evaluation", "Evaluation summary", evaluation),
                   Log("evaluation", getStabilityStatus(stability), stability)>>
              \o (IF validation.warnings # <<>>
                  THEN <<Log("decision", "Warnings", validation.warnings)>>
                  ELSE <<>>)
              \o <<Log("decision", "Decision", decision),
                   Hook("onRoundComplete", rr)>>
         /\ roundResult' = rr
         /\ lastCall' = Resolved("eval", response)
         /\ pc' = "round_done"
         /\ UNCHANGED result
    /\ snapshot' = Seen(snapshot, state')
    /\ UNCHANGED <<config, service, network, suspended>>

EvalResolved == EvalResolvedFrom(EvalResponses)

\* The evaluation call rejects.
EvalRejected ==
    /\ pc = "eval_call"
    /\ \E error \in ModelErrors :
         /\ Failed(state, trace, error)
         /\ lastCall' = Rejected("eval", error)
    /\ UNCHANGED <<config, service, network, suspended, snapshot>>

\* terminate(roundResult)
Terminate(rr) ==
    \E res \in One(TerminateResult(rr)) :
        /\ UNCHANGED <<locals, suspended, snapshot>>
        /\ state' = [state EXCEPT !.isRunning = FALSE, !.lastResult = res]
        /\ trace' = trace \o <<Hook("onTerminate", res),
                               Log("termination", "Orchestration terminated", res)>>
        /\ result' = res
        /\ roundResult' = Null
        /\ pc' = "done"

\* execute after `await this.executeRound()`: terminate, or the next turn of
\* the while loop, or the fallback after it.  The model follows a run for
\* at most MaxMaxRounds + 1 rounds.
ExecuteLoop ==
    /\ pc = "round_done"
    /\ IF roundResult.decision.should_terminate
       THEN Terminate(roundResult)
       ELSE IF state.isRunning
       THEN /\ state.currentRound.number <= MaxMaxRounds
            /\ BeginRound(state, trace, snapshot, suspended)
       ELSE Terminate([RoundResultOf(state, Decision(TRUE, "max_rounds_reached", 100))
                          EXCEPT !.round = state.currentRound.number])
    /\ UNCHANGED <<config, service, network, lastCall>>

Init ==
    /\ config \in [maxRounds : 1..MaxMaxRounds, stabilityThreshold : Thresholds]
    /\ state = createInitialState
    /\ pc = "idle"
    /\ roundResult = Null
    /\ result = Null
    /\ lastCall = NoCall
    /\ trace = <<>>
    /\ locals = NoLocals
    /\ suspended = <<>>
    /\ snapshot = Null
    /\ service = NewService
    /\ network = QuietNetwork

Next ==
    \/ Execute
    \/ PlanResolved
    \/ PlanRejected
    \/ EvalResolved
    \/ EvalRejected
    \/ ExecuteLoop

Spec == Init /\ [][Next]_vars

\* Runs under fairness: every callModel call eventually returns or raises
\* and the continuation of an awaited promise eventually runs.  The answers
\* are those that keep a run going or end it by each path.
LivePlanResponses == {PlanTextAB, PlanTextRefined, PlanTextDropsB, PlanTextNoJson}

LiveEvalResponses == {EvalTextBetter, EvalTextComplete}

InitLive ==
    /\ Init
    /\ config.stabilityThreshold = 85

RunStep ==
    \/ PlanResolvedFrom(LivePlanResponses)
    \/ PlanRejected
    \/ EvalResolvedFrom(LiveEvalResponses)
    \/ EvalRejected
    \/ ExecuteLoop

NextLive ==
    \/ Execute
    \/ RunStep

LiveSpec == InitLive /\ [][NextLive]_vars /\ WF_vars(RunStep)

(***************************************************************************)
(* Runs with a caller that holds what getState returned.                   *)
(***************************************************************************)
\* getState(): { ...this.state }.  The model follows the first object it
\* returned.
GetState ==
    /\ snapshot = Null
    /\ snapshot' = [state |-> state, sameRound |-> TRUE, sameHistory |-> TRUE]
    /\ UNCHANGED <<config, service, network, state, pc, roundResult, result, lastCall, trace,
                   locals, suspended>>

\* The holder assigns to the object getState returned (isRunning = false) or
\* to an object it refers to (roundHistory.length = 0).
CallerWrites ==
    /\ snapshot # Null
    /\ \E field \in {"isRunning", "roundHistory"} :
         /\ snapshot' = IF field = "isRunning"
                        THEN [snapshot EXCEPT !.state.isRunning = FALSE]
                        ELSE [snapshot EXCEPT !.state.roundHistory = <<>>]
         /\ state' = IF field = "roundHistory" /\ snapshot.sameHistory
                     THEN [state EXCEPT !.roundHistory = <<>>]
                     ELSE state
    /\ UNCHANGED <<config, service, network, pc, roundResult, result, lastCall, trace, locals, suspended>>

SnapshotSpec == InitLive /\ [][Execute \/ RunStep \/ GetState \/ CallerWrites]_vars

\* Runs with an observer that keeps what getState returned and changes nothing.
ObservedSpec == InitLive /\ [][Execute \/ RunStep \/ GetState]_vars

(***************************************************************************)
(* Runs in which execute is called again while a call of it waits for the  *)
(* model.  At most MaxReentrant calls are started this way after a call    *)
(* that found the orchestrator at rest.                                    *)
(***************************************************************************)
MaxReentrant == 1

\* The execute call that is running, as it is set aside.
ActiveFrame ==
    [pc |-> pc, roundResult |-> roundResult, result |-> result,
     lastCall |-> lastCall, locals |-> locals]

Awaiting == {"plan_call", "eval_call"}

\* execute is called while the running call waits for the model: nothing in
\* execute looks at isRunning.
ExecuteAgain ==
    /\ pc \in Awaiting
    /\ Len(suspended) < MaxReentrant
    /\ Cardinality({i \in DOMAIN trace :
                       trace[i] = Log("round_start", "Starting orchestration", Goal)})
           <= MaxReentrant
    /\ Start(trace, Append(suspended, ActiveFrame))

\* The model answers a call that waits: that call is the one that runs next.
\* A call that has returned is set aside no longer.
Resume ==
    /\ pc \in Awaiting \cup {"done"}
    /\ \E i \in DOMAIN suspended :
         /\ suspended[i].pc \in Awaiting
         /\ pc' = suspended[i].pc
         /\ roundResult' = suspended[i].roundResult
         /\ result' = suspended[i].result
         /\ lastCall' = suspended[i].lastCall
         /\ locals' = suspended[i].locals
         /\ suspended' = IF pc = "done"
                         THEN SubSeq(suspended, 1, i - 1)
                                  \o SubSeq(suspended, i + 1, Len(suspended))
                         ELSE [suspended EXCEPT ![i] = ActiveFrame]
    /\ UNCHANGED <<config, service, network, state, trace, snapshot>>

\* A call that finds the orchestrator at rest finds no call set aside.
ReentrantSpec ==
    InitLive /\ [][\/ Execute /\ suspended = <<>>
                   \/ PlanResolvedFrom({PlanTextAB, PlanTextNoJson})
                   \/ PlanRejected
                   \/ EvalResolvedFrom(LiveEvalResponses)
                   \/ EvalRejected
                   \/ ExecuteLoop
                   \/ ExecuteAgain
                   \/ Resume]_vars

(***************************************************************************)
(* Runs of one round whose evaluation response is any text of at most      *)
(* MaxTextLen tokens: what parseBlindEvaluation makes of every shape of    *)
(* response, inside executeRound.                                          *)
(***************************************************************************)
MaxTextLen == 4

EvalTokens ==
    {LB, RB, Prose,
     Member("vs_previous", Str("worse")),
     Member("vs_previous", Num(1)),
     Member("vs_goal", Str("sideways")),
     Member("contradictions", Arr(Strings(11) \o <<Num(3)>>)),
     Member("missing", Str("none")),
     Member("score", Num(90))}

EvalTexts == UNION {[1..n -> EvalTokens] : n \in 0..MaxTextLen}

InitParse ==
    /\ Init
    /\ config = [maxRounds |-> 1, stabilityThreshold |-> 85]

NextParse ==
    \/ Execute
    \/ PlanResolvedFrom({PlanTextAB})
    \/ EvalResolvedFrom(EvalTexts)
    \/ ExecuteLoop

ParseSpec == InitParse /\ [][NextParse]_vars

(***************************************************************************)
(* The decision engine on its own: makeTerminationDecision applied to      *)
(* every context of at most MaxHistory archived rounds.                    *)
(***************************************************************************)
MaxHistory == 3

DecidePlan == parsePlanResponse(PlanTextAB).value

EvaluationWith(contradictions, missing, vs_goal) ==
    [vs_previous    |-> Str("same"),
     vs_goal        |-> Str(vs_goal),
     contradictions |-> Strings(contradictions),
     missing        |-> Strings(missing),
     risks          |-> <<>>]

StabilityWith(evaluation, overall) ==
    [decision_reuse_rate  |-> Ratio(1, 2),
     plan_similarity      |-> Ratio(1, 2),
     contradiction_ratio  |-> Ratio(Min(Len(evaluation.contradictions), 5), 5),
     goal_convergence     |-> Ratio(1, 2),
     overall_stability    |-> overall]

RoundWith(number, evaluation, overall) ==
    [number           |-> number,
     phase            |-> IF number = 1 THEN "ARCHITECT" ELSE "REFINER",
     plan             |-> DecidePlan,
     evaluation       |-> evaluation,
     stability        |-> StabilityWith(evaluation, overall),
     locked_structure |-> createLockedStructure(DecidePlan, 1)]

HistoryEvaluations ==
    {EvaluationWith(c, 1, g) : c \in 0..2, g \in {"same", "farther"}}

CurrentEvaluations ==
    {EvaluationWith(c, m, g) : c \in 0..2, m \in 0..1, g \in {"same", "farther"}}

Stabilities == {50, 90}

InitDecide ==
    /\ config \in [maxRounds : 1..(MaxHistory + 2), stabilityThreshold : {85}]
    /\ \E n \in 0..MaxHistory :
       \E evaluations \in [1..n -> HistoryEvaluations] :
       \E evaluation \in CurrentEvaluations :
       \E overall \in Stabilities :
         state = [createInitialState EXCEPT
                    !.goal = Goal,
                    !.isRunning = TRUE,
                    !.roundHistory = [i \in 1..n |-> RoundWith(i, evaluations[i], 50)],
                    !.currentRound = RoundWith(n + 1, evaluation, overall)]
    /\ pc = "deciding"
    /\ roundResult = Null
    /\ result = Null
    /\ lastCall = NoCall
    /\ trace = <<>>
    /\ locals = NoLocals
    /\ suspended = <<>>
    /\ snapshot = Null
    /\ service = NewService
    /\ network = QuietNetwork

\* Step 6 of executeRound.
Decide ==
    /\ pc = "deciding"
    /\ roundResult' = RoundResultOf(state,
           makeTerminationDecision(
               DecisionContext(state, state.currentRound.evaluation,
                               state.currentRound.stability),
               EngineConfig(config)))
    /\ pc' = "decided"
    /\ UNCHANGED <<config, service, network, state, result, lastCall, trace, locals, suspended, snapshot>>

DecideSpec == InitDecide /\ [][Decide]_vars

(***************************************************************************)
(* Properties                                                              *)
(***************************************************************************)
\* The rounds of the run: the archived ones and the current one.  The
\* currentRound of createInitialState (number 0) is a placeholder that
\* startNewRound replaces before anything else happens; it is no round.
RunRounds ==
    {r \in Range(state.roundHistory) \cup {state.currentRound} : r.number >= 1}

\* The events of the round in progress: those from its onRoundStart on.
RoundEvents ==
    LET starts == {i \in DOMAIN trace : trace[i].ev = "onRoundStart"}
    IN  IF starts = {} THEN <<>>
        ELSE SubSeq(trace, CHOOSE i \in starts : \A j \in starts : j <= i, Len(trace))

Finished == pc = "done" /\ result # Null

\* C1: no round of a run has a number greater than maxRounds: the current
\* round's number, the number every onRoundStart announced and the round of
\* the ExecutionResult are all at most maxRounds.
C1_RoundBound ==
    /\ state.currentRound.number <= config.maxRounds
    /\ \A i \in DOMAIN trace :
           trace[i].ev = "onRoundStart" => trace[i].data <= config.maxRounds
    /\ Finished => result.round <= config.maxRounds

\* A run that used every round it was allowed and ended at the bound.
C1_Witness ==
    /\ Finished
    /\ config.maxRounds = MaxMaxRounds
    /\ lastCall = Resolved("eval", EvalTextBetter)
    /\ result.round = config.maxRounds
    /\ result.termination_reason = "max_rounds_reached"

\* C2: once execute is under way it eventually resolves with an
\* ExecutionResult whose terminated field is true.
C2_Terminates ==
    (pc \in {"plan_call", "eval_call", "round_done"})
        ~> (Finished /\ result.terminated = TRUE)

\* A run in its last allowed round that the model's answers have kept going.
C2_Witness ==
    /\ pc = "round_done"
    /\ state.currentRound.number = MaxMaxRounds
    /\ roundResult.decision.reason = "max_rounds_reached"
    /\ \A i \in DOMAIN state.roundHistory :
           state.roundHistory[i].evaluation.missing # <<>>

\* The conditions of the five terminating rules, read off the decided round.
DecidedEvaluations ==
    [i \in 1..(Len(state.roundHistory) + 1) |->
        IF i <= Len(state.roundHistory)
        THEN state.roundHistory[i].evaluation
        ELSE roundResult.evaluation]

Rule1 ==
    roundResult.evaluation.missing = <<>> /\ roundResult.evaluation.contradictions = <<>>

Rule2 == roundResult.stability.overall_stability >= config.stabilityThreshold

Rule3 == roundResult.round >= config.maxRounds

Rule4 ==
    LET n == Len(DecidedEvaluations)
    IN  /\ n >= 2
        /\ DecidedEvaluations[n].vs_goal = Str("farther")
        /\ DecidedEvaluations[n - 1].vs_goal = Str("farther")

Rule5 ==
    LET n == Len(DecidedEvaluations)
    IN  /\ n >= 3
        /\ Len(DecidedEvaluations[n - 2].contradictions)
               <= Len(DecidedEvaluations[n - 1].contradictions)
        /\ Len(DecidedEvaluations[n - 1].contradictions)
               < Len(DecidedEvaluations[n].contradictions)

\* C3: the reason makeTerminationDecision returns is that of the earliest
\* rule whose condition holds, in the order task_complete,
\* stability_achieved, max_rounds_reached, goal_diverging,
\* contradiction_trend_up, and continue when none holds.
C3_EarliestRuleWins ==
    pc = "decided" =>
        /\ roundResult.decision.reason =
               IF Rule1 THEN "task_complete"
               ELSE IF Rule2 THEN "stability_achieved"
               ELSE IF Rule3 THEN "max_rounds_reached"
               ELSE IF Rule4 THEN "goal_diverging"
               ELSE IF Rule5 THEN "contradiction_trend_up"
               ELSE "continue"
        /\ roundResult.decision.should_terminate
               = (roundResult.decision.reason # "continue")

\* Every rule from the second on matches at once; the second wins.
C3_Witness ==
    /\ pc = "decided"
    /\ ~Rule1 /\ Rule2 /\ Rule3 /\ Rule4 /\ Rule5
    /\ roundResult.decision.reason = "stability_achieved"

\* The ExecutionResults of the run: the one execute resolved with, the one
\* terminate stored, and those handed to onTerminate.
ExecutionResults ==
    (IF result # Null THEN {result} ELSE {})
    \cup (IF state.lastResult # Null THEN {state.lastResult} ELSE {})
    \cup {trace[i].data : i \in {j \in DOMAIN trace : trace[j].ev = "onTerminate"}}

\* C4: in every ExecutionResult, of terminate and of the catch block alike,
\* success is true exactly when the reason is stability_achieved or
\* task_complete.
C4_SuccessIffReason ==
    \A res \in ExecutionResults :
        res.success = (res.termination_reason \in {"stability_achieved", "task_complete"})

\* A run that terminated by a rule that is not a success.
C4_Witness ==
    /\ Finished
    /\ result.termination_reason = "goal_diverging"
    /\ result.success = FALSE
    /\ state.lastResult = result

\* C5: round 1 is the only round with phase ARCHITECT; every round from the
\* second on is a REFINER round whose locked structure is not null and
\* equals the one round 1 created.
C5_PhaseAndLock ==
    \A r \in RunRounds :
        /\ (r.phase = "ARCHITECT") = (r.number = 1)
        /\ r.number >= 2 =>
              /\ r.phase = "REFINER"
              /\ r.locked_structure # Null
              /\ \E first \in Range(state.roundHistory) :
                    /\ first.number = 1
                    /\ first.locked_structure = r.locked_structure
                    /\ r.locked_structure.goals = first.plan.goals
                    /\ r.locked_structure.locked_at_round = 1

\* A third round whose plan changed the goals; the lock is still round 1's.
C5_Witness ==
    /\ state.currentRound.number = 3
    /\ state.currentRound.plan # Null
    /\ state.currentRound.plan.goals # state.roundHistory[1].plan.goals
    /\ state.currentRound.locked_structure = state.roundHistory[1].locked_structure

Locked == state.currentRound.locked_structure

\* The step of round 1 between the plan call and the evaluation call.
LockStep ==
    /\ pc = "plan_call" /\ pc' = "eval_call"
    /\ state.currentRound.number = 1
    /\ state'.currentRound.number = 1
    /\ Locked = Null
    /\ lastCall' = Resolved("plan", lastCall'.text)
    /\ state'.currentRound.plan = parsePlanResponse(lastCall'.text).value
    /\ Locked'.goals = state'.currentRound.plan.goals
    /\ Locked'.core_decisions = state'.currentRound.plan.constraints
    /\ Locked'.locked_at_round = 1
    /\ trace'[Len(trace')].ev = "callModel"
    /\ trace'[Len(trace')].data.kind = "evaluation"
    /\ trace'[Len(trace')].data.lockedStructure = Locked'
    /\ \A i \in DOMAIN trace : trace[i].ev = "callModel" => trace[i].data.kind # "evaluation"

\* execute resetting the state for a new run.
NewRun ==
    /\ pc \in {"idle", "done"}
    /\ state'.currentRound.number = 1
    /\ state'.roundHistory = <<>>
    /\ Locked' = Null

\* C6: the locked structure of a run is written once, by the step of round 1
\* that follows the parsing of the plan and builds the evaluation prompt, from
\* that plan's goals and constraints and with locked_at_round = 1; no other
\* step of the run changes it, and from then on every round carries it.
C6_LockedOnce ==
    /\ [][Locked' # Locked => (LockStep \/ NewRun)]_vars
    /\ [](state.currentRound.plan # Null => Locked # Null)

\* A REFINER round that got a plan breaking the lock, after its evaluation.
C6_Witness ==
    /\ pc = "round_done"
    /\ state.currentRound.number = 2
    /\ lastCall = Resolved("eval", EvalTextFarther)
    /\ state.currentRound.plan.constraints # Locked.core_decisions
    /\ Locked = state.roundHistory[1].locked_structure
    /\ Locked.locked_at_round = 1

\* onLog got an entry of this round that names the locked goal as removed.
ViolationLogged(goal) ==
    \E i \in DOMAIN RoundEvents :
        /\ RoundEvents[i].ev = "onLog"
        /\ RoundEvents[i].message = "Structure violations detected"
        /\ [kind |-> "Locked goal removed", text |-> goal] \in Range(RoundEvents[i].data)

\* the plan has no goal equal to the locked goal up to letter case
GoalMissing(plan, goal) ==
    \A i \in DOMAIN plan.goals : toLowerCase(plan.goals[i].v) # toLowerCase(goal.v)

EvaluationCalled ==
    \E i \in DOMAIN RoundEvents :
        /\ RoundEvents[i].ev = "callModel"
        /\ RoundEvents[i].data.kind = "evaluation"
        /\ RoundEvents[i].data.currentPlan = state.currentRound.plan

\* C7: in a REFINER round whose parsed plan lacks a locked goal, onLog got an
\* entry naming that goal and the round went on: the evaluation call was
\* made, and once it answered the round has its evaluation, its stability and
\* its decision.  (So a REFINER round without such an entry has a plan that
\* holds every locked goal.)
C7_ViolationLoggedRoundGoesOn ==
    (state.currentRound.phase = "REFINER" /\ state.currentRound.plan # Null) =>
        \A i \in DOMAIN Locked.goals :
            GoalMissing(state.currentRound.plan, Locked.goals[i]) =>
                /\ ViolationLogged(Locked.goals[i])
                /\ EvaluationCalled
                /\ lastCall = Resolved("eval", lastCall.text) =>
                      /\ state.currentRound.evaluation # Null
                      /\ state.currentRound.stability # Null
                      /\ \/ pc = "round_done" /\ roundResult.round = state.currentRound.number
                         \/ Finished /\ result.round = state.currentRound.number
                                     /\ result.output.head = "ORCHESTRATION COMPLETE"

\* Round 2 dropped the second locked goal and was decided all the same.
C7_Witness ==
    /\ pc = "round_done"
    /\ state.currentRound.phase = "REFINER"
    /\ Len(Locked.goals) = 2
    /\ ~GoalMissing(state.currentRound.plan, Locked.goals[1])
    /\ GoalMissing(state.currentRound.plan, Locked.goals[2])
    /\ ViolationLogged(Locked.goals[2])
    /\ ~ViolationLogged(Locked.goals[1])
    /\ roundResult.decision.reason = "continue"

\* The text holds a brace block that is valid structured data: an opening
\* brace, a closing brace after it, nothing but members in between, no
\* brace before or after.
WellFormedBlock(text) ==
    \E i, j \in DOMAIN text :
        /\ i < j
        /\ text[i] = [c |-> "{"]
        /\ text[j] = [c |-> "}"]
        /\ \A k \in DOMAIN text :
              /\ k < i => text[k] # [c |-> "{"]
              /\ k > j => text[k] # [c |-> "}"]
              /\ (i < k /\ k < j) => text[k].c = "member"

\* The members of the block of a well-formed text.
BlockMembers(text) ==
    SelectSeq(JsonMatch(text), LAMBDA token : token.c = "member")

\* The round the latest evaluation call belongs to.
EvaluatedRound ==
    IF state.currentRound.evaluation # Null THEN state.currentRound
    ELSE LastRound(state.roundHistory)

EvalAnswered == lastCall = Resolved("eval", lastCall.text)

\* C8: parseBlindEvaluation never raises: whatever the evaluation call
\* answered, the round is not failed; and for a text with no brace block or
\* with a block that is not valid structured data the round's evaluation is
\* exactly the conservative default, and the round has its stability and its
\* decision.
C8_ConservativeDefault ==
    EvalAnswered =>
        /\ EvaluatedRound # Null
        /\ EvaluatedRound.evaluation # Null
        /\ EvaluatedRound.stability # Null
        /\ pc = "round_done" =>
              roundResult.decision.reason \in
                  {"task_complete", "stability_achieved", "max_rounds_reached",
                   "goal_diverging", "contradiction_trend_up", "continue"}
        /\ Finished => result.output.head = "ORCHESTRATION COMPLETE"
        /\ ~WellFormedBlock(lastCall.text) =>
              EvaluatedRound.evaluation =
                  [vs_previous    |-> Str("same"),
                   vs_goal        |-> Str("same"),
                   contradictions |-> <<Str("Evaluation parsing failed")>>,
                   missing        |-> <<>>,
                   risks          |-> <<Str("Unable to properly evaluate plan")>>]

\* A valid object followed by a stray closing brace: the match is not valid.
C8_Witness ==
    /\ pc = "round_done"
    /\ lastCall = Resolved("eval", <<LB, RB, Prose, RB>>)
    /\ roundResult.evaluation.contradictions = <<Str("Evaluation parsing failed")>>
    /\ roundResult.decision.reason = "max_rounds_reached"

\* The evaluations the run holds.
Evaluations ==
    {r.evaluation : r \in {q \in RunRounds : q.evaluation # Null}}
    \cup (IF roundResult # Null THEN {roundResult.evaluation} ELSE {})

StringsAtMost10(list) ==
    Len(list) <= 10 /\ \A i \in DOMAIN list : list[i].t = "string"

\* The value the block gives for the key is one of the values of the enum.
Recognized(text, key, enum) ==
    /\ WellFormedBlock(text)
    /\ \E i \in DOMAIN BlockMembers(text) :
          /\ BlockMembers(text)[i].key = key
          /\ BlockMembers(text)[i].val \in enum
          /\ \A j \in DOMAIN BlockMembers(text) :
                 BlockMembers(text)[j].key = key => j <= i

Comparisons == {Str("better"), Str("same"), Str("worse")}

Directions == {Str("closer"), Str("same"), Str("farther")}

\* C9: every BlindEvaluation of the run has exactly the five fields, its
\* comparisons are values of their enums, its lists hold at most 10 items,
\* all of them strings (so no number of the response is carried), and a
\* comparison the response does not give, or gives outside the enum, is same.
C9_EvaluationShape ==
    /\ \A e \in Evaluations :
          /\ DOMAIN e = {"vs_previous", "vs_goal", "contradictions", "missing", "risks"}
          /\ e.vs_previous \in Comparisons
          /\ e.vs_goal \in Directions
          /\ StringsAtMost10(e.contradictions)
          /\ StringsAtMost10(e.missing)
          /\ StringsAtMost10(e.risks)
    /\ EvalAnswered =>
          /\ ~Recognized(lastCall.text, "vs_previous", Comparisons)
                 => EvaluatedRound.evaluation.vs_previous = Str("same")
          /\ ~Recognized(lastCall.text, "vs_goal", Directions)
                 => EvaluatedRound.evaluation.vs_goal = Str("same")

\* Twelve contradictions, one of them a number, and a comparison that is a
\* number: ten strings are kept, the comparison is same.
C9_Witness ==
    /\ pc = "round_done"
    /\ lastCall = Resolved("eval",
           <<LB, Member("contradictions", Arr(Strings(11) \o <<Num(3)>>)),
             Member("vs_previous", Num(1)), RB>>)
    /\ roundResult.evaluation.contradictions = Strings(10)
    /\ roundResult.evaluation.vs_previous = Str("same")

\* The block's tasks hold an item that is null: reading its description
\* raises.
NullTask(text) ==
    \E i \in DOMAIN BlockMembers(text) :
        /\ BlockMembers(text)[i].key = "tasks"
        /\ \A j \in DOMAIN BlockMembers(text) :
               BlockMembers(text)[j].key = "tasks" => j <= i
        /\ BlockMembers(text)[i].val.t = "array"
        /\ \E k \in DOMAIN BlockMembers(text)[i].val.v :
               BlockMembers(text)[i].val.v[k].t = "null"

WellFormedPlan(text) == WellFormedBlock(text) /\ ~NullTask(text)

\* The latest model call failed the run: callModel raised, or the plan it
\* returned cannot be parsed.
CallFailed ==
    \/ lastCall.outcome = "rejected"
    \/ lastCall.kind = "plan" /\ lastCall.outcome = "resolved"
                              /\ ~WellFormedPlan(lastCall.text)

\* C10: when callModel raises, or the plan response cannot be parsed, the run
\* is over with that call as its last one, and its ExecutionResult has
\* success = false, terminated = true, termination_reason =
\* max_rounds_reached, the number of the round in progress and an output that
\* holds the error message.
C10_FailureResult ==
    CallFailed =>
        /\ Finished
        /\ result.success = FALSE
        /\ result.terminated = TRUE
        /\ result.termination_reason = "max_rounds_reached"
        /\ result.round = state.currentRound.number
        /\ result.round = Len(state.roundHistory) + 1
        /\ result.output.head = "Orchestration failed: "
        /\ lastCall.outcome = "rejected" => result.output.error = lastCall.error
        /\ lastCall.outcome = "resolved" =>
               result.output.error \in
                   {"Error: Plan parsing failed: " \o cause :
                       cause \in {ErrNoJson, ErrSyntax, ErrType}}
        /\ trace[Len(trace)] = Log("error", "Orchestration error", result.output.error)
        /\ trace[Len(trace) - 1].ev = "callModel"
        /\ Cardinality({i \in DOMAIN trace : trace[i].ev = "callModel"})
               = 2 * Len(state.roundHistory) + (IF lastCall.kind = "plan" THEN 1 ELSE 2)

\* The evaluation call of the second round raised.
C10_Witness ==
    /\ Finished
    /\ lastCall = Rejected("eval", "Error: model call failed")
    /\ state.currentRound.number = 2
    /\ result.round = 2
    /\ result.success = FALSE

\* The run ended in the catch block of execute because callModel raised.
ModelRaised == Finished /\ lastCall.outcome = "rejected"

\* C11: after a run that ended because the model function raised,
\* getState().lastResult is the failure result, with termination_reason =
\* max_rounds_reached and success = false.  (The catch block returns the
\* result without storing it: lastResult is still null.)
C11_LastResultOnFailure ==
    ModelRaised =>
        /\ state.lastResult = result
        /\ state.lastResult.termination_reason = "max_rounds_reached"
        /\ state.lastResult.success = FALSE

\* The overall stabilities the run has computed, oldest first: those of the
\* archived rounds, then that of the current round.
ComputedStabilities ==
    LET rounds == Append(state.roundHistory, state.currentRound)
        computed == SelectSeq(rounds, LAMBDA r : r.number >= 1 /\ r.stability # Null)
    IN  [i \in DOMAIN computed |-> computed[i].stability.overall_stability]

\* C12: when a run ends by failure, the stability of its ExecutionResult is
\* the overall stability most recently computed in the run, and 0 only if
\* none was computed.  (startNewRound clears the current round's stability,
\* and the catch block reads only the current round: a failure in round 2
\* reports 0 whatever round 1 computed.)
C12_FailureStability ==
    (Finished /\ CallFailed) =>
        result.stability =
            IF ComputedStabilities = <<>> THEN 0
            ELSE ComputedStabilities[Len(ComputedStabilities)]

\* The callModel calls of the run, in order.
Calls == SelectSeq(trace, LAMBDA e : e.ev = "callModel")

\* The calls a run in this position has issued in its current round.
CallsOfCurrentRound ==
    IF pc = "idle" THEN 0
    ELSE IF pc = "plan_call" THEN 1
    ELSE IF pc = "done" /\ CallFailed /\ lastCall.kind = "plan" THEN 1
    ELSE 2

\* This step issues a callModel call.
CallIssued == trace' # trace /\ trace'[Len(trace')].ev = "callModel"

\* C13: within one execute call the model function is called strictly
\* sequentially.  A call is outstanding exactly while it is the last thing
\* that happened; every completed round issued two calls, the plan prompt
\* then the evaluation prompt, the second built from the parsed answer of the
\* first; a round other than the first starts right after the previous
\* round completed with the decision to continue; nothing follows a failure.
C13_SequentialCalls ==
    /\ [](/\ (pc \in {"plan_call", "eval_call"})
               = (trace # <<>> /\ trace[Len(trace)].ev = "callModel")
          /\ Len(Calls) = 2 * Len(state.roundHistory) + CallsOfCurrentRound
          /\ \A i \in DOMAIN Calls :
                Calls[i].data.kind =
                    IF i % 2 = 0 THEN "evaluation"
                    ELSE IF i = 1 THEN "architect" ELSE "refiner"
          /\ \A i \in DOMAIN trace :
                /\ (trace[i].ev = "onRoundStart" /\ trace[i].data >= 2) =>
                      /\ trace[i - 1].ev = "onRoundComplete"
                      /\ trace[i - 1].data.round = trace[i].data - 1
                      /\ trace[i - 1].data.decision.reason = "continue"
                /\ (trace[i].ev = "onLog" /\ trace[i].message = "Orchestration error")
                      => i = Len(trace))
    /\ [][CallIssued =>
            \/ pc \in {"idle", "done", "round_done"}
            \/ /\ pc = "plan_call"
               /\ lastCall' = Resolved("plan", lastCall'.text)
               /\ WellFormedPlan(lastCall'.text)
               /\ trace'[Len(trace')].data.kind = "evaluation"
               /\ trace'[Len(trace')].data.currentPlan
                      = parsePlanResponse(lastCall'.text).value]_vars

\* A run of two completed rounds: four calls.
C13_Witness ==
    /\ Finished
    /\ ~CallFailed
    /\ result.round = 2
    /\ Len(Calls) = 4
    /\ Calls[3].data.kind = "refiner"
    /\ Calls[4].data.previousPlan = Calls[2].data.currentPlan

(***************************************************************************)
(* The stability tracker on its own: calculateStability applied to every   *)
(* current plan, previous plan (or none) and evaluation within the bounds. *)
(***************************************************************************)
MaxTasks == 2

MaxContradictions == 6

PlanTasks(n) == [i \in 1..n |-> parseTasks(Arr(<<taskX, taskY, taskX>>))[((i - 1) % 3) + 1]]

MeasuredPlans ==
    {[t |-> "plan", goals |-> goals, tasks |-> PlanTasks(n), constraints |-> constraints] :
        goals \in {<<>>, <<gA>>, <<gA, gB>>, <<gLowerA>>},
        n \in 0..MaxTasks,
        constraints \in {<<>>, <<cBudget>>}}

MeasuredEvaluations ==
    {[vs_previous    |-> vs_previous,
      vs_goal        |-> vs_goal,
      contradictions |-> Strings(n),
      missing        |-> Strings(1),
      risks          |-> <<>>] :
        vs_previous \in {Str("better"), Str("same"), Str("worse")},
        vs_goal \in {Str("closer"), Str("same"), Str("farther")},
        n \in 0..MaxContradictions}

MeasuredRound(number, plan, evaluation) ==
    [number           |-> number,
     phase            |-> IF number = 1 THEN "ARCHITECT" ELSE "REFINER",
     plan             |-> plan,
     evaluation       |-> evaluation,
     stability        |-> Null,
     locked_structure |-> Null]

InitMeasure ==
    /\ config = [maxRounds |-> MaxMaxRounds, stabilityThreshold |-> 85]
    /\ \E plan \in MeasuredPlans :
       \E previousPlan \in MeasuredPlans \cup {Null} :
       \E evaluation \in MeasuredEvaluations :
         state = [createInitialState EXCEPT
                    !.goal = Goal,
                    !.isRunning = TRUE,
                    !.roundHistory =
                        IF previousPlan = Null THEN <<>>
                        ELSE <<MeasuredRound(1, previousPlan, ConservativeDefault)>>,
                    !.currentRound =
                        MeasuredRound(IF previousPlan = Null THEN 1 ELSE 2,
                                      plan, evaluation)]
    /\ pc = "measuring"
    /\ roundResult = Null
    /\ result = Null
    /\ lastCall = NoCall
    /\ trace = <<>>
    /\ locals = NoLocals
    /\ suspended = <<>>
    /\ snapshot = Null
    /\ service = NewService
    /\ network = QuietNetwork

\* Step 4 of executeRound.
Measure ==
    /\ pc = "measuring"
    /\ state' = [state EXCEPT !.currentRound.stability =
                    calculateStability(state.currentRound,
                                       LastRound(state.roundHistory),
                                       state.currentRound.evaluation)]
    /\ pc' = "measured"
    /\ UNCHANGED <<config, service, network, roundResult, result, lastCall, trace, locals, suspended, snapshot>>

StabilitySpec == InitMeasure /\ [][Measure]_vars

\* the ratio lies in [0, 1]
InUnit(r) == r[2] > 0 /\ 0 <= r[1] /\ r[1] <= r[2]

Measured == state.currentRound.stability

\* C14: every StabilityMetrics calculateStability computes has each of its
\* four components in [0, 1] and its overall stability in [0, 1].
C14_MetricsInUnitInterval ==
    pc = "measured" =>
        /\ InUnit(Measured.contradiction_ratio)
        /\ InUnit(Measured.decision_reuse_rate)
        /\ InUnit(Measured.plan_similarity)
        /\ InUnit(Measured.goal_convergence)
        /\ 0 <= Measured.overall_stability
        /\ Measured.overall_stability <= 100

\* More contradictions than the five expected, nothing reused.
C14_Witness ==
    /\ pc = "measured"
    /\ Len(state.currentRound.evaluation.contradictions) = 6
    /\ Measured.contradiction_ratio = Ratio(5, 5)
    /\ Measured.decision_reuse_rate[1] = 0
    /\ state.roundHistory # <<>>

\* m(closer | better) = 1, m(same) = 0.5, m(farther | worse) = 0, in tenths
TenthsOf(comparison) ==
    IF comparison.v \in {"closer", "better"} THEN 10
    ELSE IF comparison.v = "same" THEN 5
    ELSE 0

\* C15: overall_stability is 0.30 * (1 - contradictionRatio)
\* + 0.25 * decisionReuseRate + 0.25 * planSimilarity + 0.20 * goalConvergence
\* rounded to two decimals, with contradictionRatio = min(contradictions / 5, 1)
\* and goalConvergence = 0.7 * m(vs_goal) + 0.3 * m(vs_previous); the weights
\* sum to 1.  (Stated in hundredths, over the common denominator of the
\* components; "rounded" is to the nearest hundredth.)
C15_OverallIsWeightedSum ==
    pc = "measured" =>
        LET evaluation == state.currentRound.evaluation
            n == Len(evaluation.contradictions)
            cr == Measured.contradiction_ratio
            dr == Measured.decision_reuse_rate
            ps == Measured.plan_similarity
            gc == Measured.goal_convergence
            den == cr[2] * dr[2] * ps[2] * gc[2]
            \* 100 * the weighted sum, times den
            sum == 30 * (cr[2] - cr[1]) * dr[2] * ps[2] * gc[2]
                   + 25 * dr[1] * cr[2] * ps[2] * gc[2]
                   + 25 * ps[1] * cr[2] * dr[2] * gc[2]
                   + 20 * gc[1] * cr[2] * dr[2] * ps[2]
        IN  /\ 30 + 25 + 25 + 20 = 100
            /\ cr[1] * 5 = (IF n < 5 THEN n ELSE 5) * cr[2]
            /\ gc[1] * 100 =
                  (7 * TenthsOf(evaluation.vs_goal)
                   + 3 * TenthsOf(evaluation.vs_previous)) * gc[2]
            /\ 2 * Measured.overall_stability * den - den <= 2 * sum
            /\ 2 * sum <= 2 * Measured.overall_stability * den + den

\* A second round that reused one decision in three: 0.30 * 0.8 + 0.25 / 3
\* + 0.25 * 0.5 + 0.20 * 0.85 = 0.6183..., reported as 0.62.
C15_Witness ==
    /\ pc = "measured"
    /\ Measured.contradiction_ratio = Ratio(1, 5)
    /\ Measured.decision_reuse_rate[1] * 3 = Measured.decision_reuse_rate[2]
    /\ Measured.goal_convergence = Ratio(17, 20)
    /\ Measured.overall_stability = 62

\* The prompt of the plan-generation call of round k (1 <= k, 2k - 1 <= Len(Calls)).
PlanPromptOfRound(k) == Calls[2 * k - 1].data

\* C16: the plan-generation prompt of round 1 is the architect prompt; that of
\* every round k >= 2 is the refiner prompt, carrying the clause
\* "LOCKED STRUCTURE (DO NOT CHANGE)", the structure locked in round 1 with
\* every one of its goals, and the plan of round k - 1.
C16_PlanPrompts ==
    \A k \in 1..MaxMaxRounds :
        2 * k - 1 <= Len(Calls) =>
            IF k = 1
            THEN PlanPromptOfRound(k).kind = "architect"
            ELSE /\ PlanPromptOfRound(k).kind = "refiner"
                 /\ PlanPromptOfRound(k).clause = "LOCKED STRUCTURE (DO NOT CHANGE)"
                 /\ k - 1 <= Len(state.roundHistory)
                 /\ state.roundHistory[1].locked_structure # Null
                 /\ state.roundHistory[1].locked_structure.locked_at_round = 1
                 /\ PlanPromptOfRound(k).lockedStructure =
                        state.roundHistory[1].locked_structure
                 /\ \A i \in DOMAIN state.roundHistory[1].plan.goals :
                        \E j \in DOMAIN PlanPromptOfRound(k).lockedStructure.goals :
                            PlanPromptOfRound(k).lockedStructure.goals[j] =
                                state.roundHistory[1].plan.goals[i]
                 /\ PlanPromptOfRound(k).previousPlan = state.roundHistory[k - 1].plan

\* A third round whose prompt carries the plan of round 2, which is not the
\* plan of round 1, and two locked goals.
C16_Witness ==
    /\ Len(Calls) >= 5
    /\ PlanPromptOfRound(3).previousPlan = state.roundHistory[2].plan
    /\ state.roundHistory[2].plan.tasks # state.roundHistory[1].plan.tasks
    /\ Len(PlanPromptOfRound(3).lockedStructure.goals) = 2

\* A step of the run: every one of them reports an event.
RunStepTaken == trace' # trace

\* C17: what getState returned is a snapshot: the steps of the run leave it
\* as it was, and what its holder does with it leaves this.state as it was.
C17_SnapshotIsolated ==
    [][/\ (snapshot # Null /\ RunStepTaken) =>
              (snapshot' # Null /\ snapshot'.state = snapshot.state)
       /\ ~RunStepTaken => state' = state]_vars

\* Open braces less closed braces of text[from..i].
Depth(text, from, i) ==
    Cardinality({j \in from..i : text[j] = LB}) - Cardinality({j \in from..i : text[j] = RB})

\* Where the first balanced {...} block of the text ends, 0 when there is none.
BlockEnd(text) ==
    LET from == MatchFrom(text)
        ends == {i \in DOMAIN text : i > from /\ Depth(text, from, i) = 0}
    IN  IF from = 0 \/ ends = {} THEN 0 ELSE CHOOSE i \in ends : \A j \in ends : i <= j

FirstBlock(text) == SubSeq(text, MatchFrom(text), BlockEnd(text))

\* C18: a response made of text, a valid JSON object and more text (braces
\* included) is parsed as its first balanced {...} block: the plan parser and
\* the evaluation parser give what they give for that object alone.
C18_FirstBalancedBlock ==
    (/\ lastCall.outcome = "resolved"
     /\ BlockEnd(lastCall.text) > 0
     /\ JsonValid(FirstBlock(lastCall.text))) =>
        IF lastCall.kind = "plan"
        THEN parsePlanResponse(lastCall.text) = parsePlanResponse(FirstBlock(lastCall.text))
        ELSE parseBlindEvaluation(lastCall.text) =
                 parseBlindEvaluation(FirstBlock(lastCall.text))

\* C19: while an execute call has started and not resolved, the round
\* number, the round history, the locked structure and the other fields of
\* the current round change only in that call's own steps: no step taken
\* while the call is set aside, waiting for the model, changes them.
C19_ExclusiveOwnership ==
    [][(\E i \in DOMAIN suspended' : suspended'[i].pc \in Awaiting) =>
           /\ state'.currentRound = state.currentRound
           /\ state'.roundHistory = state.roundHistory]_vars

\* The evaluation of round 1, Null until there is one.
FirstEvaluation ==
    IF state.roundHistory # <<>> THEN state.roundHistory[1].evaluation
    ELSE IF state.currentRound.number = 1 THEN state.currentRound.evaluation
    ELSE Null

FirstRoundComplete ==
    /\ FirstEvaluation # Null
    /\ FirstEvaluation.contradictions = <<>>
    /\ FirstEvaluation.missing = <<>>

\* C20: when the evaluation of round 1 has no contradictions and nothing
\* missing, the run is that one round with its two callModel calls, and
\* execute returns round 1, task_complete and success, whatever maxRounds,
\* stabilityThreshold, vs_previous, vs_goal and risks are.
C20_CompleteInRoundOne ==
    FirstRoundComplete =>
        /\ state.currentRound.number = 1
        /\ state.roundHistory = <<>>
        /\ Len(Calls) = 2
        /\ pc \in {"round_done", "done"}
        /\ pc = "round_done" =>
               /\ roundResult.decision.should_terminate
               /\ roundResult.decision.reason = "task_complete"
        /\ pc = "done" =>
               /\ result.round = 1
               /\ result.termination_reason = "task_complete"
               /\ result.success = TRUE

\* Worse than before, farther from the goal, risks named, one round allowed
\* and the threshold not met: the run still ends as complete.
C20_Witness ==
    /\ Finished
    /\ FirstRoundComplete
    /\ FirstEvaluation.vs_goal = Str("farther")
    /\ FirstEvaluation.vs_previous = Str("worse")
    /\ Len(FirstEvaluation.risks) = 2
    /\ config.maxRounds = 1
    /\ state.currentRound.stability.overall_stability < config.stabilityThreshold
    /\ result.success

\* The rounds of the run in order: the archived ones, then the current one.
AllRounds == state.roundHistory \o <<state.currentRound>>

\* Round i and the one before it were both judged farther from the goal.
DivergedAt(i) ==
    /\ i >= 2
    /\ AllRounds[i].evaluation.vs_goal = Str("farther")
    /\ AllRounds[i - 1].evaluation.vs_goal = Str("farther")

\* The contradictions did not fall from round i - 2 to i - 1 and rose in round i.
TrendUpAt(i) ==
    /\ i >= 3
    /\ Len(AllRounds[i - 2].evaluation.contradictions)
           <= Len(AllRounds[i - 1].evaluation.contradictions)
    /\ Len(AllRounds[i - 1].evaluation.contradictions)
           < Len(AllRounds[i].evaluation.contradictions)

\* Round i gave no reason to stop other than the number of rounds.
QuietRound(i) ==
    /\ AllRounds[i].evaluation # Null
    /\ AllRounds[i].evaluation.missing # <<>>
    /\ AllRounds[i].stability.overall_stability < config.stabilityThreshold
    /\ ~DivergedAt(i)
    /\ ~TrendUpAt(i)

\* C21: a run in whose every round something is missing, the stability is
\* below the threshold and neither goal divergence nor a contradiction trend
\* shows, executes exactly maxRounds rounds and ends with max_rounds_reached,
\* success = false and round = maxRounds.
C21_RunsToMaxRounds ==
    (Finished /\ \A i \in DOMAIN AllRounds : QuietRound(i)) =>
        /\ Len(AllRounds) = config.maxRounds
        /\ state.currentRound.number = config.maxRounds
        /\ Cardinality({i \in DOMAIN trace : trace[i].ev = "onRoundStart"})
               = config.maxRounds
        /\ result.round = config.maxRounds
        /\ result.termination_reason = "max_rounds_reached"
        /\ result.success = FALSE

\* The default configuration: three rounds.
C21_Witness ==
    /\ Finished
    /\ \A i \in DOMAIN AllRounds : QuietRound(i)
    /\ config = [maxRounds |-> 3, stabilityThreshold |-> 85]
    /\ result.round = 3

\* The evaluations from the k-th on are all farther from the goal.
FartherFrom(k) ==
    \A i \in k..Len(DecidedEvaluations) : DecidedEvaluations[i].vs_goal = Str("farther")

\* The length of the longest suffix of farther evaluations.
FartherSuffix ==
    LET n == Len(DecidedEvaluations)
        k == CHOOSE k \in 1..(n + 1) : FartherFrom(k) /\ \A j \in 1..(k - 1) : ~FartherFrom(j)
    IN  n + 1 - k

\* C22: the goal-divergence count is the length of the longest suffix of
\* farther evaluations among those of the archived rounds and the current
\* one, so a farther evaluation before a non-farther one does not count; the
\* decision is goal_diverging, terminating, with confidence 0.85, exactly
\* when that count is at least 2 and none of the three earlier rules matches.
C22_GoalDivergence ==
    pc = "decided" =>
        /\ countConsecutiveGoalDivergence(DecidedEvaluations) = FartherSuffix
        /\ (FartherSuffix >= 2 /\ ~Rule1 /\ ~Rule2 /\ ~Rule3)
               <=> roundResult.decision.reason = "goal_diverging"
        /\ roundResult.decision.reason = "goal_diverging" =>
               /\ roundResult.decision.should_terminate
               /\ roundResult.decision.confidence = 85

\* Farther, not farther, farther, farther: the count is 2, not 3.
C22_Witness ==
    /\ pc = "decided"
    /\ Len(DecidedEvaluations) = 4
    /\ DecidedEvaluations[1].vs_goal = Str("farther")
    /\ DecidedEvaluations[2].vs_goal # Str("farther")
    /\ FartherSuffix = 2
    /\ roundResult.decision = Decision(TRUE, "goal_diverging", 85)

\* The step of a round an event reports, "" for the events that belong to
\* no step of the list (warnings, violations, errors, termination).
StepOf(e) ==
    IF e.ev = "onRoundStart" THEN "onRoundStart"
    ELSE IF e.ev = "onRoundComplete" THEN "onRoundComplete"
    ELSE IF e.ev = "callModel" THEN "callModel"
    ELSE IF e.ev # "onLog" THEN ""
    ELSE IF e.message = "Round started" THEN "round start"
    ELSE IF e.message = "Plan generated" THEN "plan generated"
    ELSE IF e.message = "Structure LOCKED" THEN "structure locked"
    ELSE IF e.message = "Evaluation summary" THEN "evaluation"
    ELSE IF e.type = "evaluation" THEN "stability"
    ELSE IF e.message = "Decision" THEN "decision"
    ELSE ""

\* The steps of round n in order.
StepsOfRound(n) ==
    <<"onRoundStart", "round start", "callModel", "plan generated">>
    \o (IF n = 1 THEN <<"structure locked">> ELSE <<>>)
    \o <<"callModel", "evaluation", "stability", "decision", "onRoundComplete">>

\* The steps the events of the round in progress report.
StepsTaken ==
    LET listed == SelectSeq(RoundEvents, LAMBDA e : StepOf(e) # "")
    IN  [i \in DOMAIN listed |-> StepOf(listed[i])]

\* The invocations of onRoundStart and onRoundComplete of the run.
RoundHooks == SelectSeq(trace, LAMBDA e : e.ev \in {"onRoundStart", "onRoundComplete"})

\* C23: hooks and logs come in the order of the round's steps: the events of
\* a round are onRoundStart, the round start log, the plan call, plan
\* generated, (round 1 only) structure locked, the evaluation call, the
\* evaluation log, the stability log, the decision log, onRoundComplete, each
\* once; onRoundStart and onRoundComplete alternate over the run and carry
\* the round numbers 1, 2, 3, ... without gaps.
C23_EventOrder ==
    /\ pc # "idle" =>
           /\ Len(StepsTaken) <= Len(StepsOfRound(state.currentRound.number))
           /\ StepsTaken = SubSeq(StepsOfRound(state.currentRound.number),
                                  1, Len(StepsTaken))
           /\ RoundEvents[1] = Hook("onRoundStart", state.currentRound.number)
    /\ \A i \in DOMAIN RoundHooks :
           IF i % 2 = 1
           THEN RoundHooks[i] = Hook("onRoundStart", (i + 1) \div 2)
           ELSE /\ RoundHooks[i].ev = "onRoundComplete"
                /\ RoundHooks[i].data.round = i \div 2

\* Three whole rounds: thirty listed events, six hooks.
C23_Witness ==
    /\ Finished
    /\ Len(RoundHooks) = 6
    /\ RoundHooks[6].data.round = 3
    /\ StepsTaken = StepsOfRound(3)
    /\ \E i \in DOMAIN trace : trace[i].message = "Structure violations detected"

\* Where in the trace the hook `name` was invoked.
Invocations(name) == {i \in DOMAIN trace : trace[i].ev = name}

\* C24: a run that has ended has invoked onTerminate exactly once, after the
\* last onRoundComplete, with the ExecutionResult that execute returned and
\* that lastResult holds.
C24_TerminateHookOnce ==
    Finished =>
        /\ Cardinality(Invocations("onTerminate")) = 1
        /\ \A i \in Invocations("onTerminate") :
               /\ \A j \in Invocations("onRoundComplete") : j < i
               /\ trace[i].data = result
        /\ state.lastResult = result

\* C25: every TerminationDecision of makeTerminationDecision is well formed:
\* should_terminate is false exactly for the reason continue, the confidence
\* lies in [0, 1], and it is 0.95 for task_complete, the overall stability
\* for stability_achieved, 1.0 for max_rounds_reached, 0.85 for
\* goal_diverging, 0.75 for contradiction_trend_up and 1 - overall stability
\* for continue (in hundredths).
C25_DecisionWellFormed ==
    pc = "decided" =>
        LET decision == roundResult.decision
            overall == state.currentRound.stability.overall_stability
        IN  /\ decision.reason \in {"task_complete", "stability_achieved",
                                    "max_rounds_reached", "goal_diverging",
                                    "contradiction_trend_up", "continue"}
            /\ decision.should_terminate \in BOOLEAN
            /\ ~decision.should_terminate <=> decision.reason = "continue"
            /\ 0 <= decision.confidence /\ decision.confidence <= 100
            /\ decision.confidence =
                   IF decision.reason = "task_complete" THEN 95
                   ELSE IF decision.reason = "stability_achieved" THEN overall
                   ELSE IF decision.reason = "max_rounds_reached" THEN 100
                   ELSE IF decision.reason = "goal_diverging" THEN 85
                   ELSE IF decision.reason = "contradiction_trend_up" THEN 75
                   ELSE 100 - overall

\* The run goes on with confidence 1 - 0.50.
C25_Witness ==
    /\ pc = "decided"
    /\ roundResult.decision = [should_terminate |-> FALSE, reason |-> "continue",
                               confidence |-> 50]
    /\ state.currentRound.stability.overall_stability = 50

\* The number of contradictions of the i-th archived round.
Archived(i) == Len(state.roundHistory[i].evaluation.contradictions)

\* C26: isContradictionTrendUp holds exactly when two rounds or more are
\* archived, the second most recent of them has no more contradictions than
\* the most recent, and the current round has strictly more than the most
\* recent; with fewer than two archived rounds it never holds.
C26_TrendRule ==
    pc = "decided" =>
        LET n == Len(state.roundHistory)
            trend == isContradictionTrendUp(state.roundHistory, state.currentRound)
        IN  /\ trend <=>
                   /\ n >= 2
                   /\ Archived(n - 1) <= Archived(n)
                   /\ Len(state.currentRound.evaluation.contradictions) > Archived(n)
            /\ n < 2 => /\ ~trend
                        /\ roundResult.decision.reason # "contradiction_trend_up"

\* One contradiction, one again, then two: the decision is the trend.
C26_Witness ==
    /\ pc = "decided"
    /\ Len(state.roundHistory) = 2
    /\ Archived(1) = 1 /\ Archived(2) = 1
    /\ Len(state.currentRound.evaluation.contradictions) = 2
    /\ roundResult.decision.reason = "contradiction_trend_up"

\* execute is called on an orchestrator at rest and runs up to its first await.
ExecuteCalled == pc \in {"idle", "done"} /\ trace' # trace

\* C27: every call of execute resets the state before its first round,
\* whatever the runs before it left behind: the run starts in round 1 with
\* phase ARCHITECT, no plan, no locked structure, an empty roundHistory and a
\* null lastResult, and its first prompt is the architect prompt for its goal.
C27_ExecuteResets ==
    [][ExecuteCalled =>
          /\ state' = [currentRound |-> [number           |-> 1,
                                         phase            |-> "ARCHITECT",
                                         plan             |-> Null,
                                         evaluation       |-> Null,
                                         stability        |-> Null,
                                         locked_structure |-> Null],
                       roundHistory |-> <<>>,
                       goal         |-> Goal,
                       context      |-> "",
                       isRunning    |-> TRUE,
                       lastResult   |-> Null]
          /\ pc' = "plan_call"
          /\ Len(trace') = 4
          /\ trace'[1].message = "Starting orchestration"
          /\ trace'[2] = Hook("onRoundStart", 1)
          /\ trace'[4] = Call([kind |-> "architect", goal |-> Goal, context |-> ""])
          /\ result' = Null]_vars

\* A new run in round 1, seen next to what getState returned after the run
\* before it: two archived rounds, a locked structure, a result.
C27_Witness ==
    /\ snapshot # Null
    /\ Len(snapshot.state.roundHistory) = 2
    /\ snapshot.state.currentRound.locked_structure # Null
    /\ snapshot.state.lastResult # Null
    /\ pc = "plan_call"
    /\ state.currentRound.number = 1
    /\ state.currentRound.locked_structure = Null
    /\ state.roundHistory = <<>>
    /\ state.lastResult = Null

\* startNewRound archiving the round it ends and nothing else.
Archives ==
    /\ state'.roundHistory = Append(state.roundHistory, state.currentRound)
    /\ state'.currentRound.number = state.currentRound.number + 1

\* C28: from round 1 on, roundHistory holds exactly the rounds before the
\* current one, the i-th with number i and with the plan, evaluation and
\* stability of its own round, none of them null; a step of the run leaves
\* the archived rounds as they are, or appends the round that has just ended
\* when the next one starts.
C28_ArchivedRounds ==
    /\ [](state.currentRound.number >= 1 =>
              /\ Len(state.roundHistory) = state.currentRound.number - 1
              /\ \A i \in DOMAIN state.roundHistory :
                     /\ state.roundHistory[i].number = i
                     /\ state.roundHistory[i].plan # Null
                     /\ state.roundHistory[i].evaluation # Null
                     /\ state.roundHistory[i].stability # Null)
    /\ [][ExecuteCalled \/ state'.roundHistory = state.roundHistory \/ Archives]_vars

\* Round 3 with two archived rounds of different plans and stabilities.
C28_Witness ==
    /\ state.currentRound.number = 3
    /\ state.currentRound.stability # Null
    /\ Len(state.roundHistory) = 2
    /\ state.roundHistory[1].plan # state.roundHistory[2].plan
    /\ state.roundHistory[1].stability # state.roundHistory[2].stability
    /\ state.roundHistory[2].plan # state.currentRound.plan

\* execute reads the loop condition: executeRound has resolved with a
\* decision that does not terminate.
LoopConditionRead == pc = "round_done" /\ ~roundResult.decision.should_terminate

\* terminate runs, called from the loop, and execute returns.
TerminateFromLoop ==
    /\ pc = "round_done"
    /\ roundResult.decision.should_terminate
    /\ pc' = "done"
    /\ result' = state'.lastResult
    /\ \E i \in DOMAIN trace' : i > Len(trace) /\ trace'[i].ev = "onTerminate"

\* C29: the fallback after the loop of execute is unreachable: isRunning
\* becomes false only in terminate, called from the loop with a terminating
\* decision and followed by the return of execute, so the loop condition is
\* never read with isRunning = false.
C29_FallbackUnreachable ==
    /\ [](LoopConditionRead => state.isRunning)
    /\ [][(state.isRunning /\ ~state'.isRunning) => TerminateFromLoop]_vars

\* The loop condition is read after round 2 and the loop goes on.
C29_Witness ==
    /\ LoopConditionRead
    /\ state.isRunning
    /\ roundResult.round = 2
    /\ roundResult.decision.reason = "continue"

(***************************************************************************)
(* The blind judge's concerns on their own: detectConcerningPatterns       *)
(* applied to histories of one and of two evaluations around the           *)
(* thresholds of its default configuration.                                *)
(***************************************************************************)
maxContradictions == 5

maxMissing == 10

maxRisks == 5

detectConcerningPatterns(evaluations) ==
    IF Len(evaluations) < 2 THEN <<>>
    ELSE
      LET latest   == evaluations[Len(evaluations)]
          previous == evaluations[Len(evaluations) - 1]
          worsening ==
              IF latest.vs_previous = Str("worse")
              THEN <<[concern  |-> "Plan quality is degrading compared to previous iteration",
                      severity |-> "medium"]>>
              ELSE <<>>
          divergence ==
              IF latest.vs_goal = Str("farther")
              THEN <<[concern  |-> "Plan is moving away from the goal",
                      severity |-> "high"]>>
              ELSE <<>>
          increasing ==
              IF Len(latest.contradictions) > Len(previous.contradictions)
              THEN <<[concern  |-> "Contradictions are increasing",
                      severity |-> "medium"]>>
              ELSE <<>>
          excessive ==
              IF Len(latest.contradictions) >= maxContradictions
              THEN <<[concern  |-> "Too many contradictions detected ("
                                      \o ToString(Len(latest.contradictions)) \o ")",
                      severity |-> "high"]>>
              ELSE <<>>
          incomplete ==
              IF Len(latest.missing) >= maxMissing
              THEN <<[concern  |-> "Many elements still missing ("
                                      \o ToString(Len(latest.missing)) \o ")",
                      severity |-> "medium"]>>
              ELSE <<>>
          risky ==
              IF Len(latest.risks) >= maxRisks
              THEN <<[concern  |-> "Multiple risks identified ("
                                      \o ToString(Len(latest.risks)) \o ")",
                      severity |-> "medium"]>>
              ELSE <<>>
      IN  worsening \o divergence \o increasing \o excessive \o incomplete \o risky

InitConcerns ==
    /\ config = [maxRounds |-> MaxMaxRounds, stabilityThreshold |-> 85]
    /\ \E n \in 1..2 :
       \E before \in {0, maxContradictions - 1, maxContradictions} :
       \E vs_previous \in {Str("same"), Str("worse")} :
       \E vs_goal \in {Str("same"), Str("farther")} :
       \E contradictions \in {0, maxContradictions - 1, maxContradictions} :
       \E missing \in {maxMissing - 1, maxMissing} :
       \E risks \in {maxRisks - 1, maxRisks} :
         /\ n = 1 => before = 0
         /\ state = [createInitialState EXCEPT
                       !.goal = Goal,
                       !.isRunning = TRUE,
                       !.roundHistory =
                           [i \in 1..(n - 1) |->
                               MeasuredRound(i, DecidePlan,
                                             EvaluationWith(before, 1, "same"))],
                       !.currentRound =
                           MeasuredRound(n, DecidePlan,
                               [vs_previous    |-> vs_previous,
                                vs_goal        |-> vs_goal,
                                contradictions |-> Strings(contradictions),
                                missing        |-> Strings(missing),
                                risks          |-> Strings(risks)])]
    /\ pc = "judged"
    /\ roundResult = Null
    /\ result = Null
    /\ lastCall = NoCall
    /\ trace = <<>>
    /\ locals = NoLocals
    /\ suspended = <<>>
    /\ snapshot = Null
    /\ service = NewService
    /\ network = QuietNetwork

\* A host asks for the concerns of the evaluations so far.
Detect ==
    /\ pc = "judged"
    /\ result' = detectConcerningPatterns(
                     EvaluationsOf(Append(state.roundHistory, state.currentRound)))
    /\ pc' = "concerns"
    /\ UNCHANGED <<config, service, network, state, roundResult, lastCall, trace, locals, suspended, snapshot>>

ConcernSpec == InitConcerns /\ [][Detect]_vars

\* The concerns of result, as pairs of kind and severity.
Emitted(kind, severity) ==
    \E i \in DOMAIN result :
        /\ result[i].severity = severity
        /\ \E n \in 0..Len(result[i].concern) :
               SubSeq(result[i].concern, 1, n) = kind

LatestJudged == state.currentRound.evaluation

\* The evaluation before the latest one; none when the history holds one.
PriorJudged ==
    IF state.roundHistory = <<>> THEN Null
    ELSE LastRound(state.roundHistory).evaluation

\* C30: for every non-empty history, the concerns emitted are exactly those
\* whose table condition holds for the latest evaluation; a latest evaluation
\* with vs_goal = farther gives the high-severity divergence concern, also
\* when it is the only evaluation.
C30_ConcernsOfLatest ==
    pc = "concerns" =>
        /\ Emitted("Plan quality is degrading", "medium")
               <=> LatestJudged.vs_previous = Str("worse")
        /\ Emitted("Plan is moving away from the goal", "high")
               <=> LatestJudged.vs_goal = Str("farther")
        /\ Emitted("Contradictions are increasing", "medium")
               <=> /\ PriorJudged # Null
                   /\ Len(LatestJudged.contradictions) > Len(PriorJudged.contradictions)
        /\ Emitted("Too many contradictions detected", "high")
               <=> Len(LatestJudged.contradictions) >= 5
        /\ Emitted("Many elements still missing", "medium")
               <=> Len(LatestJudged.missing) >= 10
        /\ Emitted("Multiple risks identified", "medium")
               <=> Len(LatestJudged.risks) >= 5
        /\ Len(result) <= 6

\* The programming error createRefinerPrompt throws.
RefinerError == "Error: Refiner phase requires locked structure and previous plan"

\* C31: whenever the refiner prompt is built (every round >= 2), the previous
\* plan, which is the plan of the last archived round, and the locked
\* structure are non-null; createRefinerPrompt never throws and no run fails
\* with its error.
C31_RefinerInputs ==
    /\ \A k \in 2..((Len(Calls) + 1) \div 2) :
           /\ PlanPromptOfRound(k).kind = "refiner"
           /\ PlanPromptOfRound(k).previousPlan # Null
           /\ PlanPromptOfRound(k).lockedStructure # Null
    /\ (pc = "plan_call" /\ state.currentRound.number >= 2) =>
           /\ ~PlanPrompt(state).threw
           /\ Calls[Len(Calls)].data = PlanPrompt(state).value
           /\ Calls[Len(Calls)].data.previousPlan = LastRound(state.roundHistory).plan
           /\ Calls[Len(Calls)].data.lockedStructure = state.currentRound.locked_structure
    /\ (pc = "done" /\ result.output.head = "Orchestration failed: ") =>
           result.output.error # RefinerError

\* The refiner prompt of round 3 has been built from the plan of round 2 and
\* the structure locked in round 1.
C31_Witness ==
    /\ pc = "plan_call"
    /\ state.currentRound.number = 3
    /\ Calls[Len(Calls)].data.kind = "refiner"
    /\ Calls[Len(Calls)].data.previousPlan = state.roundHistory[2].plan
    /\ Calls[Len(Calls)].data.lockedStructure = state.roundHistory[1].locked_structure
    /\ state.roundHistory[1].locked_structure # Null

\* C32: in round 1 there is no previous plan, so decision_reuse_rate and
\* plan_similarity are 0.5 and overall_stability is at most 0.75; with a
\* stabilityThreshold above 0.75 no run terminates with stability_achieved in
\* round 1.
C32_FirstRoundStability ==
    /\ (state.currentRound # Null /\ state.currentRound.number = 1
            /\ state.currentRound.stability # Null) =>
           /\ state.currentRound.stability.decision_reuse_rate = Ratio(1, 2)
           /\ state.currentRound.stability.plan_similarity = Ratio(1, 2)
           /\ state.currentRound.stability.overall_stability <= 75
    /\ (roundResult # Null /\ roundResult.round = 1 /\ config.stabilityThreshold > 75) =>
           roundResult.decision.reason # "stability_achieved"
    /\ (pc = "done" /\ result.round = 1 /\ config.stabilityThreshold > 75) =>
           result.termination_reason # "stability_achieved"

\* Round 1 has been measured under the default threshold and the run goes on.
C32_Witness ==
    /\ pc = "round_done"
    /\ roundResult.round = 1
    /\ config.stabilityThreshold = 85
    /\ state.currentRound.stability.decision_reuse_rate = Ratio(1, 2)
    /\ state.currentRound.stability.overall_stability = 69
    /\ roundResult.decision.reason = "continue"

\* C33: no run with maxRounds <= 3 terminates with contradiction_trend_up:
\* the trend needs two archived rounds, so it holds from round 3 on only,
\* where max_rounds_reached has priority.
C33_NoTrendWithinThreeRounds ==
    /\ (state.currentRound # Null /\ state.currentRound.evaluation # Null
            /\ isContradictionTrendUp(state.roundHistory, state.currentRound)) =>
           state.currentRound.number >= 3
    /\ config.maxRounds <= 3 =>
           /\ roundResult # Null =>
                  roundResult.decision.reason # "contradiction_trend_up"
           /\ pc = "done" => result.termination_reason # "contradiction_trend_up"

\* Contradictions have grown over three rounds and the run of three rounds
\* ends by its round bound.
C33_Witness ==
    /\ pc = "done"
    /\ config.maxRounds = 3
    /\ result.round = 3
    /\ result.termination_reason = "max_rounds_reached"
    /\ result.output.head = "ORCHESTRATION COMPLETE"
    /\ TrendUpAt(3)
    /\ isContradictionTrendUp(state.roundHistory, state.currentRound)

C35_RunningWhileExecuting ==
    state.isRunning <=> pc \notin {"idle", "done"}

(***************************************************************************)
(* AI provider service (src/unnamed/part_007, lines 297-570): the          *)
(* WebSocket client.  A socket is named by its position in                 *)
(* network.sockets; the promise a connect call creates is named by the     *)
(* socket created with it.  Each action is one task of the event loop,     *)
(* followed by the continuations of the awaits it has released.            *)
(***************************************************************************)
MaxSockets == 6

MaxChats == 1

MaxDisconnects == 1

maxReconnectAttempts == 5

reconnectDelay == 1000

Client(svc, net) == [service |-> svc, network |-> net]

\* References to the socket and to the promise created with it.
Socket(socket) == [t |-> "socket", id |-> socket]

Promise(socket) == [t |-> "promise", id |-> socket]

ReadyState(c, socket) == c.network.sockets[socket].readyState

\* this.ws?.readyState === WebSocket.OPEN
IsOpen(c) ==
    /\ c.service.ws # Null
    /\ ReadyState(c, c.service.ws.id) = "OPEN"

\* connect: returns the promise it holds, or creates a socket and its promise.
connect(c) ==
    IF c.service.connectionPromise # Null THEN c
    ELSE LET socket == Len(c.network.sockets) + 1
         IN  Client([c.service EXCEPT !.ws = Socket(socket),
                                         !.connectionPromise = Promise(socket)],
                    [c.network EXCEPT !.sockets =
                        Append(@, [readyState |-> "CONNECTING", promise |-> "pending"])])

\* setTimeout: the pending timers, kept in the order of their delays.
Scheduled(timers, delay) ==
    SelectSeq(timers, LAMBDA t : t.delay <= delay)
        \o <<[delay |-> delay]>>
        \o SelectSeq(timers, LAMBDA t : t.delay > delay)

\* Variant that schedules a reconnection whatever the counter: C39 must
\* reject it.
attemptReconnectUnbounded(c) ==
    Client([c.service EXCEPT !.reconnectAttempts = @ + 1],
           [c.network EXCEPT !.timers =
               Scheduled(@, reconnectDelay * 2 ^ ((c.service.reconnectAttempts + 1) - 1))])

attemptReconnect(c) ==
    IF c.service.reconnectAttempts >= maxReconnectAttempts THEN c
    ELSE Client([c.service EXCEPT !.reconnectAttempts = @ + 1],
                [c.network EXCEPT !.timers =
                    Scheduled(@, reconnectDelay
                                     * 2 ^ ((c.service.reconnectAttempts + 1) - 1))])

\* send: a fresh request id; the message goes out on this.ws if that is open,
\* else the request, without the id, is queued.
send(c, request) ==
    LET requestId == c.network.requests + 1
        net == [c.network EXCEPT !.requests = requestId]
    IN  IF IsOpen(c)
        THEN [requestId |-> requestId,
              client    |-> Client(c.service,
                                [net EXCEPT !.wire =
                                    Append(@, [socket     |-> c.service.ws.id,
                                               request_id |-> requestId,
                                               request    |-> request,
                                               answered   |-> FALSE])])]
        ELSE [requestId |-> requestId,
              client    |-> Client([c.service EXCEPT !.messageQueue = Append(@, request)],
                                   net)]

\* flushMessageQueue: shift and send until the queue is empty.  While this.ws
\* is not open every send puts the request back and the loop never ends.
RECURSIVE flushMessageQueue(_)
flushMessageQueue(c) ==
    IF c.service.messageQueue = <<>> THEN c
    ELSE IF ~IsOpen(c) THEN Client(c.service, [c.network EXCEPT !.hung = TRUE])
    ELSE flushMessageQueue(
             send(Client([c.service EXCEPT !.messageQueue = Tail(@)], c.network),
                  Head(c.service.messageQueue)).client)

\* handleMessage, case 'response': the callbacks registered under request_id
\* are called and removed; the chat promise they belong to settles.
handleMessage(c, message) ==
    LET callbacks == {cb \in c.service.pendingCallbacks :
                          cb.request_id = message.request_id}
    IN  Client([c.service EXCEPT !.pendingCallbacks = @ \ callbacks],
               [c.network EXCEPT !.chats =
                   [k \in DOMAIN @ |->
                       IF \E cb \in callbacks : cb.chat = k
                       THEN [@[k] EXCEPT !.at = IF message.success THEN "resolved"
                                                ELSE "rejected"]
                       ELSE @[k]]])

\* chat after its await of connect: the request is sent and the callbacks are
\* registered under the id send returned; a rejected connect rejects chat.
ChatAfterConnect(c, k) ==
    IF c.network.sockets[c.network.chats[k].promise].promise = "rejected"
    THEN Client(c.service, [c.network EXCEPT !.chats[k].at = "rejected"])
    ELSE LET sent == send(c, [action |-> "chat", chat |-> k])
         IN  Client([sent.client.service EXCEPT !.pendingCallbacks =
                         @ \cup {[request_id |-> sent.requestId, chat |-> k]}],
                    [sent.client.network EXCEPT !.chats[k].at = "pending",
                                                !.chats[k].request_id = sent.requestId])

\* The chat calls whose await of connect has settled continue, in the order
\* they were made.
RECURSIVE Continuations(_, _)
Continuations(c, k) ==
    IF k > Len(c.network.chats) THEN c
    ELSE IF /\ c.network.chats[k].at = "connecting"
            /\ c.network.sockets[c.network.chats[k].promise].promise # "pending"
    THEN Continuations(ChatAfterConnect(c, k), k + 1)
    ELSE Continuations(c, k + 1)

\* The promise of a closed socket has no holder left: onclose has reset
\* connectionPromise and every await of it has continued.  How it settled is
\* forgotten.
PromisesReleased(c) ==
    Client(c.service,
           [c.network EXCEPT !.sockets =
               [socket \in DOMAIN @ |->
                   IF @[socket].readyState = "CLOSED"
                   THEN [@[socket] EXCEPT !.promise = "released"]
                   ELSE @[socket]]])

\* The task ends: the state is what the handler and the continuations left.
Becomes(c) ==
    /\ service' = (IF c.network.hung THEN c ELSE PromisesReleased(Continuations(c, 1))).service
    /\ network' = (IF c.network.hung THEN c ELSE PromisesReleased(Continuations(c, 1))).network
    /\ UNCHANGED <<config, state, pc, roundResult, result, lastCall, trace,
                   locals, suspended, snapshot>>

\* A host calls connect().  A call that finds a promise and follows no
\* disconnect() returns that promise and changes nothing.
Connect ==
    /\ ~network.hung
    /\ service.connectionPromise = Null \/ network.disconnected
    /\ Len(network.sockets) < MaxSockets
    /\ Becomes(connect(Client(service, [network EXCEPT !.disconnected = FALSE])))

\* A host calls chat(prompt, config, callbacks): it runs up to its await.
Chat ==
    /\ ~network.hung
    /\ Len(network.sockets) < MaxSockets
    /\ Len(network.chats) < MaxChats
    /\ LET c == connect(Client(service, [network EXCEPT !.disconnected = FALSE]))
       IN  Becomes(Client(c.service,
                          [c.network EXCEPT !.chats =
                              Append(@, [at         |-> "connecting",
                                         promise    |-> c.service.connectionPromise.id,
                                         request_id |-> 0])]))

\* A host calls disconnect().
Disconnect ==
    /\ ~network.hung
    /\ network.disconnects < MaxDisconnects
    /\ Becomes(Client([service EXCEPT !.ws = Null, !.connectionPromise = Null],
                      [network EXCEPT
                          !.disconnected = TRUE,
                          !.disconnects = @ + 1,
                          !.sockets =
                              IF service.ws # Null
                                 /\ @[service.ws.id].readyState \in {"CONNECTING", "OPEN"}
                              THEN [@ EXCEPT ![service.ws.id].readyState = "CLOSING"]
                              ELSE @]))

\* ws.onopen of a socket whose connection is established.
OnOpen ==
    /\ ~network.hung
    /\ \E socket \in DOMAIN network.sockets :
         /\ network.sockets[socket].readyState = "CONNECTING"
         /\ LET opened == Client([service EXCEPT !.reconnectAttempts = 0],
                                 [network EXCEPT !.sockets[socket].readyState = "OPEN"])
                flushed == flushMessageQueue(opened)
            IN  Becomes(IF flushed.network.hung THEN flushed
                        ELSE Client(flushed.service,
                                    [flushed.network EXCEPT
                                        !.sockets[socket].promise = "resolved"]))

\* The server starts the closing handshake of an open socket.
ServerCloses ==
    /\ ~network.hung
    /\ \E socket \in DOMAIN network.sockets :
         /\ network.sockets[socket].readyState = "OPEN"
         /\ Becomes(Client(service,
                           [network EXCEPT !.sockets[socket].readyState = "CLOSING"]))

\* The connection of a socket is closed, by its closing handshake or by a
\* failure: ws.onerror if it never opened, then ws.onclose.
OnClose ==
    /\ ~network.hung
    /\ \E socket \in DOMAIN network.sockets :
         /\ network.sockets[socket].readyState \in {"CONNECTING", "OPEN", "CLOSING"}
         /\ Becomes(attemptReconnect(
                Client([service EXCEPT !.connectionPromise = Null],
                       [network EXCEPT
                           !.sockets[socket].readyState = "CLOSED",
                           !.sockets[socket].promise =
                               IF @ = "pending" THEN "rejected" ELSE @])))

\* A reconnect timer fires: this.connect(this.onConnectionChange).
TimerFires ==
    /\ ~network.hung
    /\ Len(network.sockets) < MaxSockets
    /\ \E i \in DOMAIN network.timers :
         Becomes(connect(Client(service,
                     [network EXCEPT !.timers =
                         SubSeq(@, 1, i - 1) \o SubSeq(@, i + 1, Len(@))])))

\* The server answers a request it received on a socket that is open:
\* ws.onmessage with a 'response' that carries the request's id.
ServerResponds ==
    /\ ~network.hung
    /\ \E i \in DOMAIN network.wire :
       \E success \in BOOLEAN :
         /\ ~network.wire[i].answered
         /\ network.sockets[network.wire[i].socket].readyState = "OPEN"
         /\ Becomes(handleMessage(
                Client(service, [network EXCEPT !.wire[i].answered = TRUE]),
                [type       |-> "response",
                 request_id |-> network.wire[i].request_id,
                 success    |-> success]))

InitClient ==
    /\ Init
    /\ config = [maxRounds |-> MaxMaxRounds, stabilityThreshold |-> 85]

NextClient ==
    \/ Connect
    \/ Chat
    \/ Disconnect
    \/ OnOpen
    \/ ServerCloses
    \/ OnClose
    \/ TimerFires
    \/ ServerResponds

ClientSpec == InitClient /\ [][NextClient]_vars

\* The client without chat calls: what connect, disconnect and the sockets'
\* events do to the reconnection counter and the timers.
ReconnectSpec ==
    InitClient /\ [][Connect \/ Disconnect \/ OnOpen \/ OnClose \/ TimerFires]_vars

\* The sockets the client has created that are connecting or open.
LiveSockets ==
    {socket \in DOMAIN network.sockets :
        network.sockets[socket].readyState \in {"CONNECTING", "OPEN"}}

\* C36: the client holds at most one live connection: whatever the order of
\* connect, disconnect, close events and reconnect timers, no socket is
\* created while another one is open or connecting, and connectionPromise
\* refers to the socket stored in ws.
C36_OneLiveConnection ==
    /\ Cardinality(LiveSockets) <= 1
    /\ service.connectionPromise # Null =>
           /\ service.ws # Null
           /\ service.connectionPromise.id = service.ws.id

\* C37: a request handed to send while the socket is not open is queued and
\* goes out, when the connection opens, in FIFO order under the request id
\* that send returned, so the response to it reaches the callbacks registered
\* for it and the chat promise settles.
C37_QueuedRequestKeepsId ==
    /\ \A i \in DOMAIN network.wire :
           LET k == network.wire[i].request.chat
           IN  /\ network.chats[k].request_id # 0 =>
                      network.wire[i].request_id = network.chats[k].request_id
               /\ network.wire[i].answered =>
                      network.chats[k].at \in {"resolved", "rejected"}
    /\ \A i, j \in DOMAIN network.wire :
           (i < j /\ network.wire[i].socket = network.wire[j].socket) =>
               network.wire[i].request.chat <= network.wire[j].request.chat

\* C38: after disconnect() the client stays disconnected: until connect() or
\* chat() is called again no reconnection is scheduled and no socket is
\* created.
C38_StaysDisconnected ==
    [][(network.disconnected /\ network'.disconnected) =>
           /\ Len(network'.sockets) = Len(network.sockets)
           /\ Len(network'.timers) <= Len(network.timers)]_vars

\* A step in which some socket opens.
Opens ==
    \E socket \in DOMAIN network.sockets :
        /\ network.sockets[socket].readyState = "CONNECTING"
        /\ network'.sockets[socket].readyState = "OPEN"

\* C39: automatic reconnection is bounded: reconnectAttempts stays within 0..5,
\* only a successful open resets it to 0, the k-th consecutive attempt is
\* scheduled with a delay of 1000 * 2^(k-1) ms, and after 5 consecutive failed
\* attempts no further timer is scheduled.
C39_BoundedReconnection ==
    /\ [](service.reconnectAttempts \in 0..5)
    /\ [][service'.reconnectAttempts < service.reconnectAttempts =>
              (service'.reconnectAttempts = 0 /\ Opens)]_vars
    /\ [][Len(network'.timers) > Len(network.timers) =>
              /\ service.reconnectAttempts < 5
              /\ service'.reconnectAttempts = service.reconnectAttempts + 1
              /\ network'.timers =
                     Scheduled(network.timers,
                               1000 * 2 ^ (service'.reconnectAttempts - 1))]_vars

\* The first connection and five reconnections have failed; no timer is left.
C39_Witness ==
    /\ service.reconnectAttempts = 5
    /\ network.timers = <<>>
    /\ Len(network.sockets) = 6
    /\ \A socket \in DOMAIN network.sockets :
           network.sockets[socket].readyState = "CLOSED"
    /\ network.disconnects = 0

====
